---- MODULE Spec2Model ----
(***************************************************************************)
(* Deal acquisition and validation pipeline: the scraping tool             *)
(* (WebScrapingService, webScrapingTool) and the filtering tool            *)
(* (DealFilteringService, dealFilteringTool).                              *)
(*                                                                         *)
(* Conventions.  Text is a sequence of character codes.  Prices are kept   *)
(* in cents.  A nullable value is <<>> (null) or <<v>>.  A rational is a   *)
(* record [num, den] with den > 0.                                         *)
(***************************************************************************)
EXTENDS Integers, Sequences, FiniteSets, TLC

VARIABLES
    \* ---- process environment ----
    envPerplexityKey,   \* process.env.PERPLEXITY_API_KEY is set
    envOpenAIKey,       \* process.env.OPENAI_API_KEY is set
    \* ---- dealFilteringTool.execute / DealFilteringService ----
    fpc,                \* position of execute: "idle", "loop", "returned", "raised"
    deals,              \* the deals argument of the running execute
    minDiscountPercentage,
    minConfidenceScore,
    maxResults,
    processed,          \* filterDeals: number of loop iterations started
    seenDeals,          \* DealFilteringService.seenDeals of the live instance
    filteredDeals,      \* filterDeals: accepted deals, in acceptance order
    log,                \* per input deal, the logger event that ended its iteration
    aiCalls,            \* provider calls of the last analyzeWithAI: <<provider, prompt>>
    aiVerdict,          \* <<>> or <<[provider, analysis]>> of the last analyzeWithAI
    pauses,             \* number of rate-limit pauses taken by filterDeals
    returned,           \* Null, or the filteredDeals the running execute returned
    seenEarlier,        \* history: the hashes recorded by earlier service instances
    \* ---- webScrapingTool.execute / WebScrapingService ----
    spc,                \* position of execute: "idle", "init", "sites", "returned", "raised"
    sitesConfig,        \* scrapeDeals: the selected site configurations, registry order
    browser,            \* WebScrapingService.browser: "null" or "live"
    browserInitialized, \* scrapeDeals: the local of that name
    proxyIndex,         \* WebScrapingService.proxyIndex
    siteIndex,          \* scrapeDeals: index in sitesConfig of the site being scraped
    attempt,            \* retryWithBackoff: the attempt about to be made
    allDeals,           \* scrapeDeals: the deals gathered so far
    telemetry,          \* scrapeDeals: the telemetry record
    attemptLog,         \* history: every attempt, [site, attempt, strategy, ok, ...]
    sleeps,             \* history: the delays slept, in order
    launched,           \* browsers launched by puppeteer.launch
    closed,             \* browsers closed by browser.close
    scrapeMinDiscount,  \* execute: the minDiscountPercentage argument, Null if undefined
    scrapeResult,       \* Null, or what scrapeDeals returned
    toolResult,         \* Null, or the deals execute returned
    \* ---- module state of the scraping tool ----
    PROXY_LIST,         \* the proxy endpoints, fixed when the module loads
    PROXY_HEALTH,       \* proxy -> Null or <<[working, lastChecked]>>
    now,                \* Date.now()
    proxyCalls,         \* history: the getNextProxy calls, in order
    \* ---- functions applied on their own ----
    probe,              \* Null, or <<[fn, args, result]>>: the last application
    \* ---- deal storage ----
    storageKind,        \* which class dealStorage is: "postgres" or "mongo"
    isConnected,        \* the module flag of that name
    rows,               \* the records of the deals table / collection
    memoryDeals,        \* the storage object's memoryDeals
    saves,              \* number of saveDeal calls made by this process
    lastSaved,          \* history: hash -> Null or <<the data of the last save>>
    saveCalls,          \* the saveDeal calls in flight: call -> [pc, record, existing, ...]
    \* ---- scheduled trigger ----
    trigger             \* the run of electronicsScrapingTrigger: [pc, failedAt, error]

scrapeVars == << spc, sitesConfig, browser, browserInitialized, proxyIndex, siteIndex,
                 attempt, allDeals, telemetry, attemptLog, sleeps, launched, closed,
                 scrapeMinDiscount, scrapeResult, toolResult >>
proxyVars == << PROXY_LIST, PROXY_HEALTH, now, proxyCalls >>
filterVars == << fpc, deals, minDiscountPercentage, minConfidenceScore, maxResults,
                 processed, seenDeals, filteredDeals, log, aiCalls, aiVerdict,
                 pauses, returned, seenEarlier >>
envVars == << envPerplexityKey, envOpenAIKey >>
pureVars == << probe >>
storeVars == << storageKind, isConnected, rows, memoryDeals, saves, lastSaved, saveCalls >>
triggerVars == << trigger >>
vars == << envVars, filterVars, scrapeVars, proxyVars, pureVars, storeVars, triggerVars >>

\* ------------------------------------------------------------------------
\* Bounds of the model
\* ------------------------------------------------------------------------
MaxDeals == 2
MaxRerunDeals == 1
MaxSites == 2
MaxFactors == 7
MaxProxyCalls == 3
MaxTicks == 3
MaxSaves == 3

\* ------------------------------------------------------------------------
\* Generic helpers
\* ------------------------------------------------------------------------
Min(a, b) == IF a < b THEN a ELSE b
Max(a, b) == IF a > b THEN a ELSE b
Abs(a) == IF a < 0 THEN 0 - a ELSE a
Range(s) == { s[i] : i \in 1..Len(s) }
SeqsUpTo(S, n) == UNION { [1..k -> S] : k \in 0..n }

\* ------------------------------------------------------------------------
\* Text: String.prototype.toLowerCase, trim, Number to string
\* ------------------------------------------------------------------------
IsSpace(c) == c \in {9, 10, 11, 12, 13, 32}

toLowerCase(s) == [ i \in 1..Len(s) |-> IF s[i] >= 65 /\ s[i] <= 90 THEN s[i] + 32 ELSE s[i] ]

RECURSIVE TrimStart(_)
TrimStart(s) == IF Len(s) > 0 /\ IsSpace(s[1]) THEN TrimStart(Tail(s)) ELSE s

RECURSIVE TrimEnd(_)
TrimEnd(s) == IF Len(s) > 0 /\ IsSpace(s[Len(s)]) THEN TrimEnd(SubSeq(s, 1, Len(s) - 1)) ELSE s

trim(s) == TrimEnd(TrimStart(s))

RECURSIVE Digits(_)
Digits(n) == IF n < 10 THEN << 48 + n >> ELSE Digits(n \div 10) \o << 48 + (n % 10) >>

\* `${price}` of a price held in cents: "40", "10.5", "1299.99", "-3"
NumberToString(cents) ==
    LET a == Abs(cents)
        sign == IF cents < 0 THEN << 45 >> ELSE << >>
        whole == Digits(a \div 100)
        frac == a % 100
    IN  sign \o whole \o
        ( IF frac = 0 THEN << >>
          ELSE IF frac % 10 = 0 THEN << 46, 48 + (frac \div 10) >>
          ELSE << 46, 48 + (frac \div 10), 48 + (frac % 10) >> )

\* Buffer.from(key).toString('base64'): the indices of the base64 digits, 64 for '='
RECURSIVE Base64(_)
Base64(b) ==
    IF Len(b) = 0 THEN << >>
    ELSE IF Len(b) = 1 THEN << b[1] \div 4, (b[1] % 4) * 16, 64, 64 >>
    ELSE IF Len(b) = 2 THEN
        << b[1] \div 4, (b[1] % 4) * 16 + (b[2] \div 16), (b[2] % 16) * 4, 64 >>
    ELSE << b[1] \div 4, (b[1] % 4) * 16 + (b[2] \div 16),
            (b[2] % 16) * 4 + (b[3] \div 64), b[3] % 64 >>
         \o Base64(SubSeq(b, 4, Len(b)))

substring(s, from, to) == SubSeq(s, from + 1, Min(to, Len(s)))

\* ------------------------------------------------------------------------
\* DealFilteringService.generateDealHash
\* ------------------------------------------------------------------------
DealKey(deal) ==
    deal.site \o << 45 >> \o trim(toLowerCase(deal.title)) \o << 45 >>
        \o NumberToString(deal.currentPrice)

generateDealHashWholeKey(deal) == Base64(DealKey(deal))

generateDealHashRawTitle(deal) ==
    substring(Base64(deal.site \o << 45 >> \o deal.title \o << 45 >>
                        \o NumberToString(deal.currentPrice)), 0, 32)

generateDealHash(deal) == substring(Base64(DealKey(deal)), 0, 32)

\* ------------------------------------------------------------------------
\* Nullable values and rationals
\* ------------------------------------------------------------------------
Null == << >>
Some(v) == << v >>
IsNull(m) == m = << >>

Rat(n, d) == [ num |-> n, den |-> d ]
RatLess(r, k) == r.num < k * r.den          \* r < k
RatGreater(r, k) == r.num > k * r.den       \* r > k
RatAtLeast(r, k) == r.num >= k * r.den      \* r >= k

\* ------------------------------------------------------------------------
\* DealFilteringService.validateDiscountMath
\* ------------------------------------------------------------------------
validateDiscountMathWithoutPriceOrderCheck(deal) ==
    IF IsNull(deal.originalPrice) \/ deal.originalPrice[1] <= 0 THEN
        [ valid |-> FALSE, actualDiscount |-> Rat(0, 1),
          flags |-> << "No valid original price provided" >> ]
    ELSE IF deal.currentPrice <= 0 THEN
        [ valid |-> FALSE, actualDiscount |-> Rat(0, 1),
          flags |-> << "Invalid current price" >> ]
    ELSE
        LET original == deal.originalPrice[1]
            actualDiscount == Rat((original - deal.currentPrice) * 100, original)
        IN  [ valid |-> RatAtLeast(actualDiscount, 50),
              actualDiscount |-> actualDiscount, flags |-> << >> ]

validateDiscountMathRejectsMismatch(deal) ==
    IF IsNull(deal.originalPrice) \/ deal.originalPrice[1] <= 0 THEN
        [ valid |-> FALSE, actualDiscount |-> Rat(0, 1),
          flags |-> << "No valid original price provided" >> ]
    ELSE IF deal.currentPrice <= 0 THEN
        [ valid |-> FALSE, actualDiscount |-> Rat(0, 1),
          flags |-> << "Invalid current price" >> ]
    ELSE IF deal.currentPrice >= deal.originalPrice[1] THEN
        [ valid |-> FALSE, actualDiscount |-> Rat(0, 1),
          flags |-> << "Current price is not lower than original price" >> ]
    ELSE
        LET original == deal.originalPrice[1]
            actualDiscount == Rat((original - deal.currentPrice) * 100, original)
            mismatch == Abs(actualDiscount.num - deal.discountPercentage * original)
                            > 5 * original
        IN  [ valid |-> RatAtLeast(actualDiscount, 50) /\ ~mismatch,
              actualDiscount |-> actualDiscount,
              flags |-> IF mismatch THEN << "Discount mismatch" >> ELSE << >> ]

validateDiscountMathGuardNeedsGlitch(deal) ==
    IF IsNull(deal.originalPrice) \/ deal.originalPrice[1] <= 0 THEN
        [ valid |-> FALSE, actualDiscount |-> Rat(0, 1),
          flags |-> << "No valid original price provided" >> ]
    ELSE IF deal.currentPrice <= 0 THEN
        [ valid |-> FALSE, actualDiscount |-> Rat(0, 1),
          flags |-> << "Invalid current price" >> ]
    ELSE IF deal.currentPrice >= deal.originalPrice[1] THEN
        [ valid |-> FALSE, actualDiscount |-> Rat(0, 1),
          flags |-> << "Current price is not lower than original price" >> ]
    ELSE
        LET original == deal.originalPrice[1]
            actualDiscount == Rat((original - deal.currentPrice) * 100, original)
            mismatch == Abs(actualDiscount.num - deal.discountPercentage * original)
                            > 5 * original
            flags1 == IF mismatch THEN << "Discount mismatch" >> ELSE << >>
            flags2 == IF RatGreater(actualDiscount, 95)
                      THEN Append(flags1, "Extremely high discount (>95%) - likely pricing glitch")
                      ELSE flags1
        IN  IF RatGreater(actualDiscount, 95) /\ RatLess(actualDiscount, 50)
                 /\ deal.discountPercentage >= 90 THEN
                [ valid |-> FALSE, actualDiscount |-> actualDiscount,
                  flags |-> Append(flags2,
                      "Reported discount much higher than calculated - suspicious") ]
            ELSE
                [ valid |-> RatAtLeast(actualDiscount, 50),
                  actualDiscount |-> actualDiscount, flags |-> flags2 ]

validateDiscountMath(deal) ==
    IF IsNull(deal.originalPrice) \/ deal.originalPrice[1] <= 0 THEN
        [ valid |-> FALSE, actualDiscount |-> Rat(0, 1),
          flags |-> << "No valid original price provided" >> ]
    ELSE IF deal.currentPrice <= 0 THEN
        [ valid |-> FALSE, actualDiscount |-> Rat(0, 1),
          flags |-> << "Invalid current price" >> ]
    ELSE IF deal.currentPrice >= deal.originalPrice[1] THEN
        [ valid |-> FALSE, actualDiscount |-> Rat(0, 1),
          flags |-> << "Current price is not lower than original price" >> ]
    ELSE
        LET original == deal.originalPrice[1]
            actualDiscount == Rat((original - deal.currentPrice) * 100, original)
            \* |actualDiscount - reported| > 5
            mismatch == Abs(actualDiscount.num - deal.discountPercentage * original)
                            > 5 * original
            flags1 == IF mismatch THEN << "Discount mismatch" >> ELSE << >>
            flags2 == IF RatGreater(actualDiscount, 95)
                      THEN Append(flags1, "Extremely high discount (>95%) - likely pricing glitch")
                      ELSE flags1
        IN  IF RatLess(actualDiscount, 50) /\ deal.discountPercentage >= 90 THEN
                [ valid |-> FALSE, actualDiscount |-> actualDiscount,
                  flags |-> Append(flags2,
                      "Reported discount much higher than calculated - suspicious") ]
            ELSE
                [ valid |-> RatAtLeast(actualDiscount, 50),
                  actualDiscount |-> actualDiscount, flags |-> flags2 ]

\* ------------------------------------------------------------------------
\* DealFilteringService.detectSuspiciousPricing
\* ------------------------------------------------------------------------
includes(s, sub) ==
    \E i \in 0..(Len(s) - Len(sub)) : SubSeq(s, i + 1, i + Len(sub)) = sub

IsDigit(c) == c >= 48 /\ c <= 57

\* /\d{10,}/.test(s)
HasLongDigitRun(s) ==
    \E i \in 1..(Len(s) - 9) : \A j \in i..(i + 9) : IsDigit(s[j])

qualityBrands ==
    { << 97, 112, 112, 108, 101 >>,                       \* apple
      << 115, 97, 109, 115, 117, 110, 103 >>,             \* samsung
      << 115, 111, 110, 121 >>,                           \* sony
      << 110, 105, 107, 101 >>,                           \* nike
      << 97, 100, 105, 100, 97, 115 >>,                   \* adidas
      << 108, 111, 117, 105, 115, 32, 118, 117, 105, 116, 116, 111, 110 >>, \* louis vuitton
      << 103, 117, 99, 99, 105 >>,                        \* gucci
      << 112, 114, 97, 100, 97 >> }                       \* prada

roundNumbers == { 10, 50, 100, 500, 1000, 2000, 5000 }    \* in cents

detectSuspiciousPricing(deal) ==
    LET title == toLowerCase(deal.title)
        opt(cond, flag) == IF cond THEN << flag >> ELSE << >>
    IN  opt(deal.currentPrice < 100, "Price under $1 - likely pricing error")
     \o opt(deal.currentPrice = 1, "Penny pricing - classic pricing glitch")
     \o opt(/\ deal.currentPrice \in roundNumbers
            /\ ~IsNull(deal.originalPrice)
            /\ deal.originalPrice[1] # 0
            /\ deal.originalPrice[1] > 10000,
            "Suspiciously round pricing for expensive item")
     \o opt((\E brand \in qualityBrands : includes(title, brand)) /\ deal.currentPrice < 2000,
            "High-end brand at very low price - potential glitch")
     \o opt(Len(title) < 10, "Very short product title - possibly incomplete")
     \o opt(HasLongDigitRun(title),
            "Title contains long number sequences - possibly corrupted")
     \o opt(/\ includes(toLowerCase(deal.availability),
                        << 108, 105, 109, 105, 116, 101, 100 >>)  \* limited
            /\ deal.discountPercentage > 90,
            "Limited availability with extreme discount - possible error")

\* ------------------------------------------------------------------------
\* AI providers.  What a provider does with one request is an input:
\*   kind "throw"   generateText rejects (network, auth, missing key)
\*   kind "garbage" the text holds no parseable JSON object
\*   kind "json"    the text holds a JSON object with the given fields
\*                  (a field that is missing or not a number is Null)
\* ------------------------------------------------------------------------
Behaviour(kind, confidence, glitch, recommendation) ==
    [ kind |-> kind, confidenceScore |-> confidence,
      pricingGlitchProbability |-> glitch, recommendation |-> recommendation,
      suspiciousFactors |-> << >> ]

Throws == Behaviour("throw", Null, Null, "")
Garbage == Behaviour("garbage", Null, Null, "")
Json(confidence, glitch) == Behaviour("json", Some(confidence), Some(glitch), "HIGH")

ProviderBehaviours ==
    { Throws, Garbage, Json(10, 40), Json(10, 75), Json(90, 40), Json(90, 75) }

\* A provider whose key is not configured rejects every request.
BehavioursOf(keyConfigured) == IF keyConfigured THEN ProviderBehaviours ELSE { Throws }

\* ------------------------------------------------------------------------
\* DealFilteringService.parseAIResponse: Null when it throws
\* ------------------------------------------------------------------------
\* Number(x) || fallback
NumberOr(field, fallback) ==
    IF IsNull(field) \/ field[1] = 0 THEN fallback ELSE field[1]

parseAIResponse(raw) ==
    IF raw.kind # "json" THEN Null
    ELSE Some([ confidenceScore |-> Max(0, Min(100, NumberOr(raw.confidenceScore, 50))),
                pricingGlitchProbability |->
                    Max(0, Min(100, NumberOr(raw.pricingGlitchProbability, 0))),
                suspiciousFactors |-> raw.suspiciousFactors,
                recommendation |->
                    IF raw.recommendation \in { "HIGH", "MEDIUM", "LOW" }
                    THEN raw.recommendation ELSE "MEDIUM" ])

\* ------------------------------------------------------------------------
\* DealFilteringService.analyzeWithAI
\* ------------------------------------------------------------------------
\* AI_ANALYSIS_PROMPT with its six placeholders replaced
Prompt(deal) ==
    [ title |-> deal.title, site |-> deal.site,
      originalPrice |-> IF IsNull(deal.originalPrice) THEN << 78, 47, 65 >>  \* N/A
                        ELSE NumberToString(deal.originalPrice[1]),
      currentPrice |-> NumberToString(deal.currentPrice),
      discountPercentage |-> deal.discountPercentage,
      availability |-> deal.availability ]

\* generateText followed by parseAIResponse: Null when either throws
Ask(behaviour) == IF behaviour.kind = "throw" THEN Null ELSE parseAIResponse(behaviour)

\* One provider call as the log keeps it: who was asked, with what content, and
\* what the provider did.
Call(provider, content, does) == [ provider |-> provider, content |-> content, does |-> does ]

analyzeWithAINoFallback(deal, perplexityDoes, openaiDoes) ==
    LET prompt == Prompt(deal)
        first == Ask(perplexityDoes)
    IN  [ calls |-> << Call("Perplexity", prompt, perplexityDoes) >>,
          verdict |-> IF IsNull(first) THEN Null
                      ELSE Some([ provider |-> "Perplexity", analysis |-> first[1] ]) ]

analyzeWithAI(deal, perplexityDoes, openaiDoes) ==
    LET prompt == Prompt(deal)
        first == Ask(perplexityDoes)
        second == Ask(openaiDoes)
        call1 == Call("Perplexity", prompt, perplexityDoes)
        call2 == Call("OpenAI", prompt, openaiDoes)
    IN  IF ~IsNull(first) THEN
            [ calls |-> << call1 >>,
              verdict |-> Some([ provider |-> "Perplexity", analysis |-> first[1] ]) ]
        ELSE IF ~IsNull(second) THEN
            [ calls |-> << call1, call2 >>,
              verdict |-> Some([ provider |-> "OpenAI", analysis |-> second[1] ]) ]
        ELSE \* throw openaiError
            [ calls |-> << call1, call2 >>, verdict |-> Null ]

\* ------------------------------------------------------------------------
\* DealFilteringService.calculateOverallScore
\* ------------------------------------------------------------------------
\* Math.round of the rational n/d, d > 0: floor(n/d + 1/2)
MathRound(n, d) == (2 * n + d) \div (2 * d)

calculateOverallScoreUnclamped(mathValidation, aiAnalysis, suspiciousFactors) ==
    LET d == mathValidation.actualDiscount.den
        discount == IF mathValidation.valid
                    THEN Min(30 * 10 * d, 3 * mathValidation.actualDiscount.num)
                    ELSE 0 - 20 * 10 * d
        score == 50 * 10 * d + discount + aiAnalysis.confidenceScore * 4 * d
                   - Min(30, Len(suspiciousFactors) * 5) * 10 * d
                   + (IF aiAnalysis.pricingGlitchProbability > 70 THEN 20 * 10 * d ELSE 0)
    IN  MathRound(score, 10 * d)

calculateOverallScoreBonusAtSeventy(mathValidation, aiAnalysis, suspiciousFactors) ==
    LET d == mathValidation.actualDiscount.den
        discount == IF mathValidation.valid
                    THEN Min(30 * 10 * d, 3 * mathValidation.actualDiscount.num)
                    ELSE 0 - 20 * 10 * d
        score == 50 * 10 * d + discount + aiAnalysis.confidenceScore * 4 * d
                   - Min(30, Len(suspiciousFactors) * 5) * 10 * d
                   + (IF aiAnalysis.pricingGlitchProbability >= 70 THEN 20 * 10 * d ELSE 0)
    IN  Max(0, Min(100, MathRound(score, 10 * d)))

calculateOverallScore(mathValidation, aiAnalysis, suspiciousFactors) ==
    LET d == mathValidation.actualDiscount.den
        \* every term below is the code's term times 10 * d
        base == 50 * 10 * d
        discount == IF mathValidation.valid
                    THEN Min(30 * 10 * d, 3 * mathValidation.actualDiscount.num)
                    ELSE 0 - 20 * 10 * d
        aiScore == aiAnalysis.confidenceScore * 4 * d
        suspicionPenalty == Min(30, Len(suspiciousFactors) * 5) * 10 * d
        bonus == IF aiAnalysis.pricingGlitchProbability > 70 THEN 20 * 10 * d ELSE 0
        score == base + discount + aiScore - suspicionPenalty + bonus
    IN  Max(0, Min(100, MathRound(score, 10 * d)))

\* ------------------------------------------------------------------------
\* The deals offered to the filtering tool
\* ------------------------------------------------------------------------
Deal(site, title, originalPrice, currentPrice, discountPercentage, availability) ==
    [ site |-> site, title |-> title, originalPrice |-> originalPrice,
      currentPrice |-> currentPrice, discountPercentage |-> discountPercentage,
      availability |-> availability ]

EBay == << 101, 66, 97, 121 >>                                    \* eBay
Amazon == << 65, 109, 97, 122, 111, 110 >>                        \* Amazon
Unknown == << 85, 110, 107, 110, 111, 119, 110 >>                 \* Unknown
TitleTV == << 84, 86 >>                                           \* TV
TitleTVVariant == << 84, 118, 32 >>                               \* "Tv " (case, space)
TitleBravia == << 83, 111, 110, 121, 32, 66, 114, 97, 118, 105, 97, 32,
                  53, 53, 105, 110, 32, 84, 86 >>                 \* Sony Bravia 55in TV

TV60 == Deal(EBay, TitleTV, Some(10000), 4000, 60, Unknown)
TV60Variant == Deal(EBay, TitleTVVariant, Some(10000), 4000, 60, Unknown)
TV90 == Deal(EBay, TitleTV, Some(10000), 1000, 90, Unknown)
Bravia49 == Deal(Amazon, TitleBravia, Some(10000), 5100, 49, Unknown)
Bravia95 == Deal(Amazon, TitleBravia, Some(10000), 500, 95, Unknown)

Catalogue == { TV60, TV60Variant, TV90, Bravia49, Bravia95 }

\* The deals handed to executions that follow one another in one process
RerunCatalogue == { TV60, TV60Variant, TV90 }

MinDiscountChoices == { 50, 90 }
MinConfidenceChoices == { 60, 90 }
MaxResultsChoices == { 1, 25 }

\* ------------------------------------------------------------------------
\* DealFilteringService.filterDeals: one iteration of the loop over deals.
\* n is `processed` after its increment.  The result names the logger event
\* that ends the iteration, the new seenDeals, the deal pushed (if any), the
\* provider calls made and whether the rate-limit pause was taken.
\* ------------------------------------------------------------------------
\* The three pure per-deal computations of the loop body, tabulated over the
\* catalogue (each is evaluated once per deal).
DealHashes == [ deal \in Catalogue |-> generateDealHash(deal) ]
MathValidations == [ deal \in Catalogue |-> validateDiscountMath(deal) ]
SuspiciousFactors == [ deal \in Catalogue |-> detectSuspiciousPricing(deal) ]

MathRejects(mathValidation) ==
    ~mathValidation.valid /\ RatLess(mathValidation.actualDiscount, 50)

AcceptsWithoutConfidence(mathValidation, aiAnalysis, confidenceScore, minDiscount, minConfidence) ==
    \/ RatAtLeast(mathValidation.actualDiscount, minDiscount)
    \/ aiAnalysis.pricingGlitchProbability >= 70

Accepts(mathValidation, aiAnalysis, confidenceScore, minDiscount, minConfidence) ==
    LET qualifiesAsHighDiscount == RatAtLeast(mathValidation.actualDiscount, minDiscount)
        qualifiesAsPricingGlitch == aiAnalysis.pricingGlitchProbability >= 70
        meetsConfidenceThreshold == confidenceScore >= minConfidence
    IN  (qualifiesAsHighDiscount \/ qualifiesAsPricingGlitch) /\ meetsConfidenceThreshold

NoAI == [ calls |-> << >>, verdict |-> Null ]

\* The catch block of the loop body: the error is logged, the deal is left out
\* and the loop goes on (the rate-limit pause is not reached).
CatchErrorKeepsDeal(deal, seen, ai) ==
    [ event |-> "Error processing deal", seen |-> seen,
      pushed |-> Some([ deal |-> deal, confidenceScore |-> 50,
                        pricingGlitchProbability |-> 0,
                        filteringReason |-> "High discount deal",
                        validationFlags |-> << >>, suspiciousFactors |-> << >>,
                        recommendationLevel |-> "MEDIUM" ]),
      ai |-> ai, pause |-> FALSE ]

CatchErrorForgetsDeal(deal, seen, ai) ==
    [ event |-> "Error processing deal", seen |-> seen \ { DealHashes[deal] },
      pushed |-> Null, ai |-> ai, pause |-> FALSE ]

CatchError(deal, seen, ai) ==
    [ event |-> "Error processing deal", seen |-> seen, pushed |-> Null,
      ai |-> ai, pause |-> FALSE ]

FilterIteration(deal, seen, n, perplexityDoes, openaiDoes, minDiscount, minConfidence) ==
    LET dealHash == DealHashes[deal]
        mathValidation == MathValidations[deal]
        ai == analyzeWithAI(deal, perplexityDoes, openaiDoes)
        aiAnalysis == ai.verdict[1].analysis
        suspiciousFactors == SuspiciousFactors[deal]
        confidenceScore == calculateOverallScore(mathValidation, aiAnalysis, suspiciousFactors)
        pause == n % 10 = 0
    IN  IF dealHash \in seen THEN
            [ event |-> "Skipping duplicate deal", seen |-> seen, pushed |-> Null,
              ai |-> NoAI, pause |-> FALSE ]
        ELSE IF MathRejects(mathValidation) THEN
            [ event |-> "Deal failed math validation", seen |-> seen \cup { dealHash },
              pushed |-> Null, ai |-> NoAI, pause |-> FALSE ]
        ELSE IF IsNull(ai.verdict) THEN
            CatchError(deal, seen \cup { dealHash }, ai)
        ELSE IF Accepts(mathValidation, aiAnalysis, confidenceScore,
                        minDiscount, minConfidence) THEN
            [ event |-> "Deal passed filtering", seen |-> seen \cup { dealHash },
              pushed |-> Some([ deal |-> deal,
                  confidenceScore |-> confidenceScore,
                  pricingGlitchProbability |-> aiAnalysis.pricingGlitchProbability,
                  filteringReason |-> IF aiAnalysis.pricingGlitchProbability >= 70
                                      THEN "Potential pricing glitch"
                                      ELSE "High discount deal",
                  validationFlags |-> mathValidation.flags,
                  suspiciousFactors |-> suspiciousFactors \o aiAnalysis.suspiciousFactors,
                  recommendationLevel |-> aiAnalysis.recommendation ]),
              ai |-> ai, pause |-> pause ]
        ELSE
            [ event |-> "Deal filtered out", seen |-> seen \cup { dealHash },
              pushed |-> Null, ai |-> ai, pause |-> pause ]

\* filteredDeals.sort((a, b) => scoreB - scoreA): a stable sort, descending by
\* confidenceScore + 0.5 * pricingGlitchProbability (compared doubled)
RankKey(d) == 2 * d.confidenceScore + d.pricingGlitchProbability

RECURSIVE InsertByRank(_, _)
InsertByRank(sorted, d) ==
    IF Len(sorted) = 0 THEN << d >>
    ELSE IF RankKey(sorted[Len(sorted)]) >= RankKey(d) THEN Append(sorted, d)
    ELSE Append(InsertByRank(SubSeq(sorted, 1, Len(sorted) - 1), d), sorted[Len(sorted)])

SortByRankKeepsOrder(s) == s

RECURSIVE SortByRank(_)
SortByRank(s) ==
    IF Len(s) = 0 THEN << >>
    ELSE InsertByRank(SortByRank(SubSeq(s, 1, Len(s) - 1)), s[Len(s)])

slice(s, from, to) == SubSeq(s, from + 1, Min(to, Len(s)))

\* ------------------------------------------------------------------------
\* dealFilteringTool.execute
\* ------------------------------------------------------------------------
\* new DealFilteringService(logger): the instance starts with an empty seenDeals
ConstructServiceShared ==
    /\ seenDeals' = seenDeals
    /\ seenEarlier' = seenEarlier

ConstructService ==
    /\ seenDeals' = { }
    /\ seenEarlier' = seenEarlier \cup seenDeals

\* execute: the configuration check that throws before anything else is done
ConfigurationErrorOnAnyMissingKey(perplexityKey, openAIKey) == ~perplexityKey \/ ~openAIKey

ConfigurationError(perplexityKey, openAIKey) == ~perplexityKey /\ ~openAIKey

\* The call: the configuration check, then a new service and filterDeals.
Execute(inputs) ==
    /\ \E input \in inputs,
          minDiscount \in MinDiscountChoices,
          minConfidence \in MinConfidenceChoices,
          limit \in MaxResultsChoices :
        /\ deals' = input
        /\ minDiscountPercentage' = minDiscount
        /\ minConfidenceScore' = minConfidence
        /\ maxResults' = limit
    /\ processed' = 0
    /\ filteredDeals' = << >>
    /\ log' = << >>
    /\ aiCalls' = << >>
    /\ aiVerdict' = Null
    /\ pauses' = 0
    /\ returned' = Null
    /\ IF ConfigurationError(envPerplexityKey, envOpenAIKey)
       THEN /\ fpc' = "raised"
            /\ UNCHANGED << seenDeals, seenEarlier >>
       ELSE /\ fpc' = "loop"
            /\ ConstructService
    /\ UNCHANGED << envVars, scrapeVars, proxyVars, pureVars, storeVars, triggerVars >>

\* One execute in the life of the process.
FilterExecute ==
    /\ fpc = "idle"
    /\ Execute(SeqsUpTo(Catalogue, MaxDeals))

\* Any number of executes, one after the other, in the same process.
FilterExecuteAgain ==
    /\ fpc \in { "idle", "returned", "raised" }
    /\ Execute(SeqsUpTo(RerunCatalogue, MaxRerunDeals))

\* Inputs of ten deals, as a scraping run hands them over: the 10th is any
\* deal of the catalogue, the nine before it are two deals and listings of
\* them that come again.
BatchInputs ==
    { [ k \in 1..10 |-> IF k = 10 THEN tenth ELSE IF k = 2 THEN Bravia95 ELSE TV90 ] :
        tenth \in Catalogue }

\* One execute on such an input.
FilterExecuteBatch ==
    /\ fpc = "idle"
    /\ Execute(BatchInputs)

\* filterDeals: the loop body for the next deal.  The fallback provider's
\* behaviour is an input only when the primary fails.
FilterProcessDeal ==
    /\ fpc = "loop"
    /\ processed < Len(deals)
    /\ \E perplexityDoes \in BehavioursOf(envPerplexityKey) :
       \E openaiDoes \in IF IsNull(Ask(perplexityDoes))
                         THEN BehavioursOf(envOpenAIKey) ELSE { Throws } :
        LET it == FilterIteration(deals[processed + 1], seenDeals, processed + 1,
                                  perplexityDoes, openaiDoes,
                                  minDiscountPercentage, minConfidenceScore)
        IN  /\ processed' = processed + 1
            /\ seenDeals' = it.seen
            /\ filteredDeals' = filteredDeals \o it.pushed
            /\ log' = Append(log, it.event)
            /\ aiCalls' = it.ai.calls
            /\ aiVerdict' = it.ai.verdict
            /\ pauses' = IF it.pause THEN pauses + 1 ELSE pauses
    /\ UNCHANGED << fpc, deals, minDiscountPercentage, minConfidenceScore, maxResults,
                    returned, seenEarlier, envVars, scrapeVars, proxyVars, pureVars, storeVars, triggerVars >>

\* filterDeals after the loop (sort, slice) and the rest of execute.
FilterReturn ==
    /\ fpc = "loop"
    /\ processed = Len(deals)
    /\ filteredDeals' = SortByRank(filteredDeals)
    /\ returned' = Some(slice(SortByRank(filteredDeals), 0, maxResults))
    /\ fpc' = "returned"
    /\ UNCHANGED << deals, minDiscountPercentage, minConfidenceScore, maxResults,
                    processed, seenDeals, log, aiCalls, aiVerdict, pauses,
                    seenEarlier, envVars, scrapeVars, proxyVars, pureVars, storeVars, triggerVars >>

\* ------------------------------------------------------------------------
\* The scraping tool: site registry and proxies
\* ------------------------------------------------------------------------
Walmart == << 87, 97, 108, 109, 97, 114, 116 >>                   \* Walmart
BestBuy == << 66, 101, 115, 116, 32, 66, 117, 121 >>              \* Best Buy
Target == << 84, 97, 114, 103, 101, 116 >>                        \* Target

SITE_CONFIGS ==
    << [ name |-> Amazon, requiresJS |-> TRUE ],
       [ name |-> EBay, requiresJS |-> FALSE ],
       [ name |-> Walmart, requiresJS |-> TRUE ],
       [ name |-> BestBuy, requiresJS |-> TRUE ],
       [ name |-> Target, requiresJS |-> TRUE ] >>

\* ------------------------------------------------------------------------
\* SITE_CONFIGS[].priceParser (the five sites have the same one).  Prices are
\* in cents; Null is null.
\* ------------------------------------------------------------------------
\* The character at position i, 0 when there is none
At(s, i) == IF i \in 1..Len(s) THEN s[i] ELSE 0

\* The length of the run of digits (of white space) that starts at position i
RECURSIVE DigitRun(_, _)
DigitRun(s, i) == IF IsDigit(At(s, i)) THEN 1 + DigitRun(s, i + 1) ELSE 0

RECURSIVE SpaceRun(_, _)
SpaceRun(s, i) == IF IsSpace(At(s, i)) THEN 1 + SpaceRun(s, i + 1) ELSE 0

\* parseInt of a run of digits
RECURSIVE DigitsValue(_)
DigitsValue(s) ==
    IF Len(s) = 0 THEN 0
    ELSE 10 * DigitsValue(SubSeq(s, 1, Len(s) - 1)) + (s[Len(s)] - 48)

\* replace(/\s+/g, ' ')
RECURSIVE CollapseSpaces(_)
CollapseSpaces(s) ==
    IF Len(s) = 0 THEN << >>
    ELSE IF IsSpace(s[1])
    THEN << 32 >> \o CollapseSpaces(SubSeq(s, 1 + SpaceRun(s, 1), Len(s)))
    ELSE << s[1] >> \o CollapseSpaces(Tail(s))

\* text.replace(/[,$]/g, '').replace(/\s+/g, ' ').trim()
cleanText(text) ==
    trim(CollapseSpaces(SelectSeq(text, LAMBDA c : c \notin { 44, 36 })))

\* cleanText.match(/(\d+)\s*(\d{2})(?!\d)/): the leftmost start and, from it,
\* the longest (\d+); \s* can only be the whole run of white space after it
dollarsAndCents(s) ==
    LET SplitMatchesAt(p, a) ==
            /\ a \in 1..DigitRun(s, p)
            /\ LET q == p + a + SpaceRun(s, p + a)
               IN  IsDigit(At(s, q)) /\ IsDigit(At(s, q + 1)) /\ ~IsDigit(At(s, q + 2))
    IN
    IF \E i \in 1..Len(s) : \E a \in 1..Len(s) : SplitMatchesAt(i, a) THEN
        LET i == CHOOSE k \in 1..Len(s) :
                    /\ \E a \in 1..Len(s) : SplitMatchesAt(k, a)
                    /\ \A m \in 1..(k - 1) : \A a \in 1..Len(s) : ~SplitMatchesAt(m, a)
            a == CHOOSE n \in 1..Len(s) :
                    /\ SplitMatchesAt(i, n)
                    /\ \A m \in (n + 1)..Len(s) : ~SplitMatchesAt(i, m)
            j == i + a + SpaceRun(s, i + a)
        IN  Some(<< SubSeq(s, i, i + a - 1), SubSeq(s, j, j + 1) >>)
    ELSE Null

\* cleanText.match(/(\d+\.?\d{0,2})\s*-\s*(\d+\.?\d{0,2})/): group 1.
\* RangeLowEnd(i) is where \d+\.?\d{0,2} started at i ends when \s*-\s*\d
\* follows it, 0 when the pattern does not match from i.
rangeMatch(s) ==
    LET RangeLowEnd(i) ==
            LET a == DigitRun(s, i)
                afterDot == IF At(s, i + a) = 46
                            THEN Min(2, DigitRun(s, i + a + 1)) ELSE 0
                Follows(e) == LET dash == e + 1 + SpaceRun(s, e + 1)
                              IN  /\ At(s, dash) = 45
                                  /\ IsDigit(At(s, dash + 1 + SpaceRun(s, dash + 1)))
                ends == { i + a - 1 } \cup
                        ( IF At(s, i + a) = 46
                          THEN { i + a + k : k \in 0..afterDot } ELSE { } )
            IN  IF a >= 1 /\ \E e \in ends : Follows(e)
                THEN CHOOSE e \in ends : Follows(e) /\ \A f \in ends : Follows(f) => f <= e
                ELSE 0
    IN
    IF \E i \in 1..Len(s) : RangeLowEnd(i) > 0 THEN
        LET i == CHOOSE k \in 1..Len(s) :
                    /\ RangeLowEnd(k) > 0
                    /\ \A m \in 1..(k - 1) : RangeLowEnd(m) = 0
        IN  Some(SubSeq(s, i, RangeLowEnd(i)))
    ELSE Null

\* cleanText.match(/(\d+)(?:\.(\d{1,2}))?/): the first run of digits and the
\* one or two digits after a point that follows it
priceMatch(s) ==
    IF \E i \in 1..Len(s) : IsDigit(s[i]) THEN
        LET i == CHOOSE k \in 1..Len(s) :
                    IsDigit(s[k]) /\ \A m \in 1..(k - 1) : ~IsDigit(s[m])
            a == DigitRun(s, i)
            c == IF At(s, i + a) = 46 THEN Min(2, DigitRun(s, i + a + 1)) ELSE 0
        IN  Some(<< SubSeq(s, i, i + a - 1), SubSeq(s, i + a + 1, i + a + c) >>)
    ELSE Null

\* parseFloat of digits with at most two decimals; padEnd(2, '0')
priceParser(text) ==
    LET parseFloat(s) ==
            LET a == DigitRun(s, 1)
                fraction == IF At(s, a + 1) = 46 THEN SubSeq(s, a + 2, Len(s)) ELSE << >>
            IN  100 * DigitsValue(SubSeq(s, 1, a))
                  + ( IF Len(fraction) = 1 THEN 10 * DigitsValue(fraction)
                      ELSE DigitsValue(fraction) )
        padEnd(s) == IF Len(s) = 1 THEN Append(s, 48) ELSE s
        clean == cleanText(text)
        split == dollarsAndCents(clean)
        range == rangeMatch(clean)
        price == priceMatch(clean)
    IN  IF ~IsNull(split)
        THEN Some(100 * DigitsValue(split[1][1]) + DigitsValue(split[1][2]))
        ELSE IF ~IsNull(range) THEN Some(parseFloat(range[1]))
        ELSE IF ~IsNull(price)
        THEN Some(100 * DigitsValue(price[1][1])
                    + ( IF Len(price[1][2]) > 0 THEN DigitsValue(padEnd(price[1][2]))
                        ELSE 0 ))
        ELSE Null

\* ------------------------------------------------------------------------
\* What scrapeWithPuppeteer (lines 638-678) and scrapeWithCheerio (lines
\* 755-793) make of one listing of the page: Null when the listing is skipped,
\* else the Deal.  A listing holds the texts found under the selectors, already
\* trimmed; an element that is not there gives the empty text.
\* ------------------------------------------------------------------------
processListingFloorOnRounded(site, listing) ==
    LET Processed(currentPrice, originalPrice) ==
            IF Len(listing.title) = 0 \/ Len(listing.currentPriceText) = 0 THEN Null
            ELSE IF IsNull(currentPrice) \/ currentPrice[1] <= 0 THEN Null
            ELSE
                LET discounted == /\ ~IsNull(originalPrice)
                                  /\ originalPrice[1] # 0
                                  /\ originalPrice[1] > currentPrice[1]
                    num == IF discounted THEN 100 * (originalPrice[1] - currentPrice[1])
                           ELSE 0
                    den == IF discounted THEN originalPrice[1] ELSE 1
                IN  IF MathRound(num, den) < 10 THEN Null
                    ELSE Some([ site |-> site, title |-> listing.title,
                                originalPrice |-> originalPrice,
                                currentPrice |-> currentPrice[1],
                                discountPercentage |-> MathRound(num, den),
                                availability |-> listing.availability ])
    \* each price text is parsed once
    IN  CHOOSE deal \in
            { Processed(currentPrice, originalPrice) :
                currentPrice \in { priceParser(listing.currentPriceText) },
                originalPrice \in { IF Len(listing.originalPriceText) > 0
                                    THEN priceParser(listing.originalPriceText)
                                    ELSE Null } } : TRUE

processListing(site, listing) ==
    LET Processed(currentPrice, originalPrice) ==
            IF Len(listing.title) = 0 \/ Len(listing.currentPriceText) = 0 THEN Null
            ELSE IF IsNull(currentPrice) \/ currentPrice[1] <= 0 THEN Null
            ELSE
                LET discounted == /\ ~IsNull(originalPrice)
                                  /\ originalPrice[1] # 0
                                  /\ originalPrice[1] > currentPrice[1]
                    \* discountPercentage before rounding, as a fraction
                    num == IF discounted THEN 100 * (originalPrice[1] - currentPrice[1])
                           ELSE 0
                    den == IF discounted THEN originalPrice[1] ELSE 1
                IN  IF num < 10 * den THEN Null
                    ELSE Some([ site |-> site, title |-> listing.title,
                                originalPrice |-> originalPrice,
                                currentPrice |-> currentPrice[1],
                                discountPercentage |-> MathRound(num, den),
                                availability |-> listing.availability ])
    \* each price text is parsed once
    IN  CHOOSE deal \in
            { Processed(currentPrice, originalPrice) :
                currentPrice \in { priceParser(listing.currentPriceText) },
                originalPrice \in { IF Len(listing.originalPriceText) > 0
                                    THEN priceParser(listing.originalPriceText)
                                    ELSE Null } } : TRUE

\* The names the tool's input schema lets a caller pass in `sites`
SelectableSites == { Amazon, EBay, Walmart, BestBuy }

\* `sites` of a call: undefined (Null), or up to MaxSites names
SiteSelections ==
    { Null } \cup { Some(S) : S \in { T \in SUBSET SelectableSites : Cardinality(T) <= MaxSites } }

\* getProxyList(): the configured proxy service, or the three built-in proxies
ServiceProxyList == << "PROXY_SERVICE_URL" >>
DefaultProxyList == << "http://proxy.toolip.io:31337",
                       "http://proxy-server.scraperapi.com:8001",
                       "http://gateway.scraperapi.com:8001" >>
AllProxies == Range(ServiceProxyList) \cup Range(DefaultProxyList)

PROXY_CHECK_INTERVAL == 300000

checkProxyHealthKeepsAtFiveMinutes(proxy, health, t, reachable) ==
    LET cached == health[proxy]
    IN  IF ~IsNull(cached) /\ (t - cached[1].lastChecked) <= PROXY_CHECK_INTERVAL
        THEN [ working |-> cached[1].working, health |-> health, requested |-> FALSE ]
        ELSE [ working |-> reachable,
               health |-> [ health EXCEPT ![proxy] =
                               Some([ working |-> reachable, lastChecked |-> t ]) ],
               requested |-> TRUE ]

\* WebScrapingService.checkProxyHealth.  reachable: whether the request to the
\* health endpoint through the proxy answers 200 (an input).
checkProxyHealth(proxy, health, t, reachable) ==
    LET cached == health[proxy]
    IN  IF ~IsNull(cached) /\ (t - cached[1].lastChecked) < PROXY_CHECK_INTERVAL
        THEN [ working |-> cached[1].working, health |-> health, requested |-> FALSE ]
        ELSE [ working |-> reachable,
               health |-> [ health EXCEPT ![proxy] =
                               Some([ working |-> reachable, lastChecked |-> t ]) ],
               requested |-> TRUE ]

\* WebScrapingService.getNextProxy: the loop from iteration `attempts` on.
\* examined: the proxies looked at; requests: those checked over the network.
RECURSIVE NextProxyFrom(_, _, _, _, _, _, _, _)
NextProxyFrom(list, index, health, t, reachable, attempts, examined, requests) ==
    IF attempts >= Len(list) THEN
        [ proxy |-> Null, proxyIndex |-> index, health |-> health,
          examined |-> examined, requests |-> requests ]
    ELSE
        LET proxy == list[(index % Len(list)) + 1]
            check == checkProxyHealth(proxy, health, t, reachable[proxy])
            examinedNow == Append(examined, proxy)
            requestsNow == IF check.requested THEN Append(requests, proxy) ELSE requests
        IN  IF check.working THEN
                [ proxy |-> Some(proxy), proxyIndex |-> index + 1, health |-> check.health,
                  examined |-> examinedNow, requests |-> requestsNow ]
            ELSE NextProxyFrom(list, index + 1, check.health, t, reachable,
                               attempts + 1, examinedNow, requestsNow)

getNextProxyFromTheTop(list, index, health, t, reachable) ==
    NextProxyFrom(list, 0, health, t, reachable, 0, << >>, << >>)

getNextProxy(list, index, health, t, reachable) ==
    IF Len(list) = 0
    THEN [ proxy |-> Null, proxyIndex |-> index, health |-> health,
           examined |-> << >>, requests |-> << >> ]
    ELSE NextProxyFrom(list, index, health, t, reachable, 0, << >>, << >>)

\* A getNextProxy call as the history keeps it: when it was made, proxyIndex and
\* PROXY_HEALTH before it, the proxies it examined and those it checked over
\* the network with what they answered, what it returned, and PROXY_HEALTH
\* after it.
ProxyCall(index, health, t, reachable, next) ==
    [ time |-> t, start |-> index, before |-> health, examined |-> next.examined,
      requests |-> next.requests,
      answers |-> [ k \in 1..Len(next.requests) |-> reachable[next.requests[k]] ],
      proxy |-> next.proxy, after |-> next.health ]

\* ------------------------------------------------------------------------
\* WebScrapingService: browser, fetch strategies, retry
\* ------------------------------------------------------------------------
\* initBrowser.  launchOk: whether puppeteer.launch resolves (an input).
\* threw: initBrowser rejects.
initBrowserLaunchesAnother(b, list, index, health, t, reachable, launchOk) ==
    LET next == getNextProxy(list, index, health, t, reachable)
    IN  [ browser |-> IF launchOk THEN "live" ELSE b,
          proxyIndex |-> next.proxyIndex, health |-> next.health,
          launches |-> IF launchOk THEN 1 ELSE 0,
          threw |-> ~launchOk,
          calls |-> << ProxyCall(index, health, t, reachable, next) >> ]

initBrowser(b, list, index, health, t, reachable, launchOk) ==
    IF b # "null" THEN
        [ browser |-> b, proxyIndex |-> index, health |-> health, launches |-> 0,
          threw |-> FALSE, calls |-> << >> ]
    ELSE
        LET next == getNextProxy(list, index, health, t, reachable)
        IN  [ browser |-> IF launchOk THEN "live" ELSE "null",
              proxyIndex |-> next.proxyIndex, health |-> next.health,
              launches |-> IF launchOk THEN 1 ELSE 0,
              threw |-> ~launchOk,
              calls |-> << ProxyCall(index, health, t, reachable, next) >> ]

\* closeBrowser
closeBrowserLeavesItOpen(b) == [ browser |-> b, closes |-> 0 ]

closeBrowser(b) ==
    IF b # "null" THEN [ browser |-> "null", closes |-> 1 ]
    ELSE [ browser |-> b, closes |-> 0 ]

\* What a load of a site's search page comes to (an input):
\*   kind "error"       network error, timeout or non-2xx answer
\*   kind "noContainer" a page without any element for the site's
\*                      productContainer selector
\*   kind "products"    a page with product elements; deals: the Deals the
\*                      strategy builds from them
ScrapedDeal(site, discountPercentage) ==
    Deal(site, TitleBravia, Some(10000), (100 - discountPercentage) * 100,
         discountPercentage, Unknown)

\* The pages a run may meet: the page without product container is eBay's
PageOutcomes(site) ==
    { [ kind |-> "error", deals |-> << >> ],
      [ kind |-> "products",
        deals |-> IF site = EBay THEN << ScrapedDeal(site, 60), ScrapedDeal(site, 20) >>
                  ELSE IF site = Walmart THEN << >>
                  ELSE IF site = Amazon THEN << ScrapedDeal(site, 95) >>
                  ELSE << ScrapedDeal(site, 91) >> ] }
      \cup ( IF site = EBay THEN { [ kind |-> "noContainer", deals |-> << >> ] }
             ELSE { } )

\* scrapeWithPuppeteer: raises without a browser; else loads the page, raises
\* when page.goto fails or waitForSelector finds no product container in time,
\* and returns the Deals otherwise.  deals is Null when it raises; loaded:
\* the page was requested from the site.
scrapeWithPuppeteer(b, page, index, health) ==
    [ deals |-> IF b = "null" \/ page.kind # "products" THEN Null ELSE Some(page.deals),
      loaded |-> b # "null",
      proxyIndex |-> index, health |-> health, strategy |-> "Puppeteer",
      proxy |-> Null, calls |-> << >> ]

\* scrapeWithCheerio: picks a proxy, then loads the page, through the proxy
\* when it got one (the request fails when that proxy does not answer) and
\* directly when it got none; raises when axios.get fails; $(productContainer)
\* of a page without such an element is an empty selection, whose each() runs
\* for no element, so that the empty list of Deals is returned
scrapeWithCheerio(page, list, index, health, t, reachable) ==
    LET next == getNextProxy(list, index, health, t, reachable)
        proxyDown == ~IsNull(next.proxy) /\ ~reachable[next.proxy[1]]
    IN  [ deals |-> IF proxyDown \/ page.kind = "error" THEN Null
                    ELSE IF page.kind = "noContainer" THEN Some(<< >>)
                    ELSE Some(page.deals),
          loaded |-> ~proxyDown,
          proxyIndex |-> next.proxyIndex, health |-> next.health,
          strategy |-> "Cheerio",
          proxy |-> next.proxy, calls |-> << ProxyCall(index, health, t, reachable, next) >> ]

\* retryWithBackoff, one attempt: what follows attempt number `tries`
retryWithBackoffConstantDelay(tries, succeeded, maxRetries, baseDelay) ==
    IF succeeded THEN [ result |-> "return", delay |-> Null ]
    ELSE IF tries < maxRetries
    THEN [ result |-> "retry", delay |-> Some(baseDelay) ]
    ELSE [ result |-> "throw", delay |-> Null ]

retryWithBackoffGivesUpEarly(tries, succeeded, maxRetries, baseDelay) ==
    IF succeeded THEN [ result |-> "return", delay |-> Null ]
    ELSE IF tries < maxRetries - 1
    THEN [ result |-> "retry", delay |-> Some(baseDelay * (2 ^ (tries - 1))) ]
    ELSE [ result |-> "throw", delay |-> Null ]

retryWithBackoff(tries, succeeded, maxRetries, baseDelay) ==
    IF succeeded THEN [ result |-> "return", delay |-> Null ]
    ELSE IF tries < maxRetries
    THEN [ result |-> "retry", delay |-> Some(baseDelay * (2 ^ (tries - 1))) ]
    ELSE [ result |-> "throw", delay |-> Null ]

\* scrapeDeals: what the catch block of the site loop does with the error
OnSiteErrorRethrows == "rethrow"

OnSiteError == "continue"

\* allDeals.sort((a, b) => b.discountPercentage - a.discountPercentage): stable
RECURSIVE InsertByDiscount(_, _)
InsertByDiscount(sorted, d) ==
    IF Len(sorted) = 0 THEN << d >>
    ELSE IF sorted[Len(sorted)].discountPercentage >= d.discountPercentage
    THEN Append(sorted, d)
    ELSE Append(InsertByDiscount(SubSeq(sorted, 1, Len(sorted) - 1), d),
                sorted[Len(sorted)])

RECURSIVE SortByDiscount(_)
SortByDiscount(s) ==
    IF Len(s) = 0 THEN << >>
    ELSE InsertByDiscount(SortByDiscount(SubSeq(s, 1, Len(s) - 1)), s[Len(s)])

SelectSites(sitesToScrape) ==
    IF IsNull(sitesToScrape) THEN SITE_CONFIGS
    ELSE SelectSeq(SITE_CONFIGS, LAMBDA config : config.name \in sitesToScrape[1])

\* Which proxies answer a health check (an input): none, one of them, all
Reachabilities ==
    { [ proxy \in AllProxies |-> proxy \in up ] :
        up \in { {}, { DefaultProxyList[2] }, AllProxies } }

\* ------------------------------------------------------------------------
\* webScrapingTool.execute
\* ------------------------------------------------------------------------
\* The call: a new WebScrapingService, then scrapeDeals up to its site loop
\* (site selection, browser start for sites that need one).
execute(sites, minDiscount) ==
    /\ \E reachable \in Reachabilities, launchOk \in BOOLEAN :
        LET selected == SelectSites(sites)
            hasJSSites == \E k \in 1..Len(selected) : selected[k].requiresJS
            init == initBrowser("null", PROXY_LIST, 0, PROXY_HEALTH, now,
                                reachable, launchOk)
        IN  /\ sitesConfig' = selected
            /\ scrapeMinDiscount' = minDiscount
            /\ IF hasJSSites
               THEN /\ browser' = init.browser
                    /\ browserInitialized' = ~init.threw
                    /\ proxyIndex' = init.proxyIndex
                    /\ PROXY_HEALTH' = init.health
                    /\ launched' = launched + init.launches
                    /\ proxyCalls' = init.calls
               ELSE /\ browser' = "null"
                    /\ browserInitialized' = FALSE
                    /\ proxyIndex' = 0
                    /\ proxyCalls' = << >>
                    /\ UNCHANGED << PROXY_HEALTH, launched >>
            /\ telemetry' = [ sitesAttempted |-> Len(selected), sitesSucceeded |-> 0,
                              sitesFailed |-> 0, totalDeals |-> 0, errors |-> << >> ]
    /\ spc' = "sites"
    /\ siteIndex' = 1
    /\ attempt' = 1
    /\ allDeals' = << >>
    /\ attemptLog' = << >>
    /\ sleeps' = << >>
    /\ scrapeResult' = Null
    /\ toolResult' = Null
    /\ UNCHANGED << closed, PROXY_LIST, now, envVars, filterVars, pureVars, storeVars >>

\* One execute in the life of the process, with arguments that passed the
\* input schema.
ScrapeExecute ==
    /\ spc = "idle"
    /\ \E sites \in SiteSelections, minDiscount \in MinDiscountChoices :
          execute(sites, Some(minDiscount))
    /\ UNCHANGED triggerVars

\* scrapeDeals: one attempt of retryWithBackoff on the current site, and what
\* the site loop does once retryWithBackoff returns or throws.
ScrapeAttempt ==
    /\ spc = "sites"
    /\ siteIndex <= Len(sitesConfig)
    /\ \E page \in PageOutcomes(sitesConfig[siteIndex].name),
          reachable \in Reachabilities :
        LET siteConfig == sitesConfig[siteIndex]
            fetch == IF siteConfig.requiresJS /\ browserInitialized
                     THEN scrapeWithPuppeteer(browser, page, proxyIndex, PROXY_HEALTH)
                     ELSE scrapeWithCheerio(page, PROXY_LIST, proxyIndex, PROXY_HEALTH,
                                            now, reachable)
            ok == ~IsNull(fetch.deals)
            step == retryWithBackoff(attempt, ok, 3, 2000)
            entry == [ site |-> siteConfig.name, attempt |-> attempt,
                       strategy |-> fetch.strategy, ok |-> ok, deals |-> fetch.deals,
                       proxy |-> fetch.proxy, backoff |-> step.delay,
                       \* what the site answered, kept for requests made directly
                       direct |-> IF fetch.strategy = "Cheerio" /\ IsNull(fetch.proxy)
                                  THEN Some(page.kind) ELSE Null ]
            rethrown == step.result = "throw" /\ OnSiteError = "rethrow"
        IN  /\ attemptLog' = Append(attemptLog, entry)
            /\ proxyIndex' = fetch.proxyIndex
            /\ PROXY_HEALTH' = fetch.health
            /\ proxyCalls' = proxyCalls \o fetch.calls
            /\ CASE step.result = "return" ->
                     /\ allDeals' = allDeals \o fetch.deals[1]
                     /\ telemetry' = [ telemetry EXCEPT
                            !.sitesSucceeded = @ + 1,
                            !.totalDeals = @ + Len(fetch.deals[1]) ]
                     /\ sleeps' = Append(sleeps, 2000)
                     /\ siteIndex' = siteIndex + 1
                     /\ attempt' = 1
                 [] step.result = "retry" ->
                     /\ sleeps' = Append(sleeps, step.delay[1])
                     /\ attempt' = attempt + 1
                     /\ UNCHANGED << allDeals, telemetry, siteIndex >>
                 [] step.result = "throw" ->
                     /\ telemetry' = [ telemetry EXCEPT
                            !.sitesFailed = @ + 1,
                            !.errors = Append(@, siteConfig.name) ]
                     /\ siteIndex' = siteIndex + 1
                     /\ attempt' = 1
                     /\ UNCHANGED << allDeals, sleeps >>
            \* an error that leaves scrapeDeals: execute's catch and finally
            /\ spc' = IF rethrown THEN "raised" ELSE spc
            /\ browser' = IF rethrown THEN closeBrowser(browser).browser ELSE browser
            /\ closed' = IF rethrown THEN closed + closeBrowser(browser).closes ELSE closed
    /\ UNCHANGED << sitesConfig, browserInitialized, launched, scrapeMinDiscount,
                    scrapeResult, toolResult, PROXY_LIST, now, envVars, filterVars, pureVars, storeVars, triggerVars >>

\* scrapeDeals after the site loop (sort), then the rest of execute: the
\* minimum-discount filter and, in the finally block, closeBrowser.
ScrapeReturn ==
    /\ spc = "sites"
    /\ siteIndex > Len(sitesConfig)
    /\ allDeals' = SortByDiscount(allDeals)
    /\ scrapeResult' = Some(SortByDiscount(allDeals))
    /\ toolResult' = Some(SelectSeq(SortByDiscount(allDeals),
                            LAMBDA deal : /\ ~IsNull(scrapeMinDiscount)
                                          /\ deal.discountPercentage >= scrapeMinDiscount[1]))
    /\ browser' = closeBrowser(browser).browser
    /\ closed' = closed + closeBrowser(browser).closes
    /\ spc' = "returned"
    /\ UNCHANGED << sitesConfig, browserInitialized, proxyIndex, siteIndex, attempt,
                    telemetry, attemptLog, sleeps, launched, scrapeMinDiscount,
                    proxyVars, envVars, filterVars, pureVars, storeVars, triggerVars >>

\* ------------------------------------------------------------------------
\* electronicsScrapingTrigger: one scheduled run
\* ------------------------------------------------------------------------
\* The run starts and its step "scrape-electronics" calls
\* webScrapingTool.execute with the context { searchQuery, sites, maxResults }:
\* five site names, and no minDiscountPercentage.
TriggerStarts ==
    /\ trigger.pc = "idle"
    /\ spc = "idle"
    /\ execute(Some({ Amazon, EBay, Walmart, BestBuy, Target }), Null)
    /\ trigger' = [ trigger EXCEPT !.pc = "scrape-electronics" ]

\* The run from the end of the tool's execute on.  execute returned the object
\* { deals, summary } or threw; the run reads `success` and `error` from what it
\* returned (a property that is absent reads as undefined, here Null), throws
\* unless `success` is truthy, and otherwise hands `deals` to
\* dealFilteringTool.execute in its step "filter-deals".
TriggerContinues ==
    /\ trigger.pc = "scrape-electronics"
    /\ spc \in { "returned", "raised" }
    /\ LET scrapingResult ==
               [ deals |-> toolResult[1],
                 summary |-> [ totalDeals |-> Len(toolResult[1]) ] ]
           Read(object, property) ==
               IF property \in DOMAIN object THEN Some(object[property]) ELSE Null
           success == Read(scrapingResult, "success")
       IN  IF spc = "raised"
           THEN /\ trigger' = [ pc |-> "raised", failedAt |-> Some("scrape-electronics"),
                                error |-> Some("thrown by execute") ]
                /\ UNCHANGED filterVars
           ELSE IF IsNull(success) \/ success[1] = FALSE
           THEN /\ trigger' = [ pc |-> "raised", failedAt |-> Some("scrape-electronics"),
                                error |-> Some(<< "Scraping failed: ",
                                                  Read(scrapingResult, "error") >>) ]
                /\ UNCHANGED filterVars
           ELSE /\ trigger' = [ trigger EXCEPT !.pc = "filter-deals" ]
                /\ deals' = scrapingResult.deals
                /\ minDiscountPercentage' = 70
                /\ minConfidenceScore' = 60
                /\ maxResults' = 50
                /\ processed' = 0
                /\ filteredDeals' = << >>
                /\ log' = << >>
                /\ aiCalls' = << >>
                /\ aiVerdict' = Null
                /\ pauses' = 0
                /\ returned' = Null
                /\ IF ConfigurationError(envPerplexityKey, envOpenAIKey)
                   THEN /\ fpc' = "raised"
                        /\ UNCHANGED << seenDeals, seenEarlier >>
                   ELSE /\ fpc' = "loop"
                        /\ ConstructService
    /\ UNCHANGED << envVars, scrapeVars, proxyVars, pureVars, storeVars >>

\* ------------------------------------------------------------------------
\* Proxy selection over time
\* ------------------------------------------------------------------------
\* The clock moves in steps of half the cache lifetime
Tick == PROXY_CHECK_INTERVAL \div 2

\* A fetch strategy of the service asks for a proxy.
RequestProxy ==
    /\ Len(proxyCalls) < MaxProxyCalls
    /\ \E reachable \in Reachabilities :
        LET next == getNextProxy(PROXY_LIST, proxyIndex, PROXY_HEALTH, now, reachable)
        IN  /\ proxyIndex' = next.proxyIndex
            /\ PROXY_HEALTH' = next.health
            /\ proxyCalls' = Append(proxyCalls,
                                ProxyCall(proxyIndex, PROXY_HEALTH, now, reachable, next))
    /\ UNCHANGED << spc, sitesConfig, browser, browserInitialized, siteIndex, attempt,
                    allDeals, telemetry, attemptLog, sleeps, launched, closed,
                    scrapeMinDiscount, scrapeResult, toolResult,
                    PROXY_LIST, now, envVars, filterVars, pureVars, storeVars, triggerVars >>

\* Date.now() advances.
TimePasses ==
    /\ now < MaxTicks * Tick
    /\ now' = now + Tick
    /\ UNCHANGED << PROXY_LIST, PROXY_HEALTH, proxyCalls, scrapeVars, envVars,
                    filterVars, pureVars, storeVars, triggerVars >>

\* ------------------------------------------------------------------------
\* Deal storage: PostgreSQLDealStorage and DealStorage
\* ------------------------------------------------------------------------
\* What saveDeal is given: a deal with the score the filter gave it
DealData(deal, confidenceScore) == [ deal |-> deal, confidenceScore |-> confidenceScore ]

SavedDeals == { DealData(deal, score) : deal \in { TV60, TV60Variant, TV90 },
                                         score \in { 60, 90 } }

\* generateDealHash of the storage classes: the same recipe as the filter's
StorageHash(dealData) == DealHashes[dealData.deal]

\* saveDeal: the record written for a save (dealWithDefaults / dealWithHash)
dealWithDefaults(dealData) ==
    [ hash |-> StorageHash(dealData), title |-> dealData.deal.title,
      site |-> dealData.deal.site, currentPrice |-> dealData.deal.currentPrice,
      confidenceScore |-> MathRound(NumberOr(Some(dealData.confidenceScore), 0), 1) ]

\* Array.prototype.findIndex on the hash: 0 stands for -1
findIndex(memory, hash) ==
    IF \E k \in 1..Len(memory) : memory[k].hash = hash
    THEN CHOOSE k \in 1..Len(memory) :
            /\ memory[k].hash = hash
            /\ \A m \in 1..(k - 1) : memory[m].hash # hash
    ELSE 0

MemoryCap == 1000

\* saveDeal, memory fallback: replace the record of that hash or push, then
\* keep the last MemoryCap records
SaveToMemory(memory, record) ==
    LET existingIndex == findIndex(memory, record.hash)
        saved == IF existingIndex >= 1
                 THEN [ memory EXCEPT ![existingIndex] = record ]
                 ELSE Append(memory, record)
    IN  IF Len(saved) > MemoryCap
        THEN SubSeq(saved, Len(saved) - MemoryCap + 1, Len(saved))
        ELSE saved

\* saveDeal, PostgreSQL: select by hash, then update the rows of that hash or
\* insert
SaveToPostgres(table, record) ==
    LET existing == SelectSeq(table, LAMBDA row : row.hash = record.hash)
    IN  IF Len(existing) > 0
        THEN [ k \in 1..Len(table) |->
                 IF table[k].hash = record.hash THEN record ELSE table[k] ]
        ELSE Append(table, record)

\* saveDeal, MongoDB: Deal.findOneAndUpdate({hash}, data, {upsert: true})
findOneAndUpdate(collection, record) ==
    LET k == findIndex(collection, record.hash)
    IN  IF k >= 1 THEN [ collection EXCEPT ![k] = record ] ELSE Append(collection, record)

\* The connection started by the storage object's constructor is established
\* (initializeDB / connectToMongoDB reach `isConnected = true`).
StorageConnects ==
    /\ ~isConnected
    /\ isConnected' = TRUE
    /\ UNCHANGED << storageKind, rows, memoryDeals, saves, lastSaved, saveCalls,
                    envVars, filterVars, scrapeVars, proxyVars, pureVars, triggerVars >>

\* dealStorage.saveDeal(dealData), from its first line to its return.
SaveDeal ==
    /\ saves < MaxSaves
    /\ \E dealData \in SavedDeals :
        LET record == dealWithDefaults(dealData)
        IN  /\ IF isConnected
               THEN /\ rows' = IF storageKind = "postgres"
                               THEN SaveToPostgres(rows, record)
                               ELSE findOneAndUpdate(rows, record)
                    /\ UNCHANGED memoryDeals
               ELSE /\ memoryDeals' = SaveToMemory(memoryDeals, record)
                    /\ UNCHANGED rows
            /\ lastSaved' = [ lastSaved EXCEPT ![record.hash] = Some(record) ]
    /\ saves' = saves + 1
    /\ UNCHANGED << storageKind, isConnected, saveCalls,
                    envVars, filterVars, scrapeVars, proxyVars, pureVars, triggerVars >>

\* Two saveDeal calls may be in flight at once: each `await` of saveDeal lets
\* the other run.
SaveCallIds == { 1, 2 }

NoSaveCall == [ pc |-> "idle", record |-> Null, existing |-> << >>, overlapped |-> FALSE ]

\* PostgreSQLDealStorage.saveDeal, up to the end of its first query: call
\* `call` builds the record and selects the rows of its hash.
SaveDealSelects ==
    /\ storageKind = "postgres"
    /\ isConnected
    /\ \E call \in SaveCallIds, dealData \in SavedDeals :
        LET record == dealWithDefaults(dealData)
            existing == SelectSeq(rows, LAMBDA row : row.hash = record.hash)
        IN  /\ saveCalls[call].pc = "idle"
            /\ saveCalls' = [ saveCalls EXCEPT ![call] =
                                [ pc |-> "selected", record |-> Some(record),
                                  existing |-> existing, overlapped |-> FALSE ] ]
    /\ UNCHANGED << storageKind, isConnected, rows, memoryDeals, saves, lastSaved,
                    envVars, filterVars, scrapeVars, proxyVars, pureVars, triggerVars >>

\* PostgreSQLDealStorage.saveDeal, from the end of its first query to its
\* return: an update of the rows of the hash if the select found one, else an
\* insert, which the UNIQUE constraint on deals.hash refuses when a row of
\* that hash is there by now; saveDeal logs the error and throws it again.
SaveDealWrites ==
    /\ \E call \in SaveCallIds :
        LET record == saveCalls[call].record[1]
            taken == \E k \in 1..Len(rows) : rows[k].hash = record.hash
            refused == Len(saveCalls[call].existing) = 0 /\ taken
            overlapped == \E other \in SaveCallIds \ { call } :
                              /\ saveCalls[other].pc = "selected"
                              /\ saveCalls[other].record[1].hash = record.hash
        IN  /\ saveCalls[call].pc = "selected"
            /\ rows' = IF Len(saveCalls[call].existing) > 0
                       THEN [ k \in 1..Len(rows) |->
                                IF rows[k].hash = record.hash THEN record ELSE rows[k] ]
                       ELSE IF taken THEN rows ELSE Append(rows, record)
            /\ lastSaved' = IF refused THEN lastSaved
                            ELSE [ lastSaved EXCEPT ![record.hash] = Some(record) ]
            /\ saveCalls' = [ saveCalls EXCEPT ![call] =
                                [ @ EXCEPT !.pc = IF refused THEN "raised" ELSE "returned",
                                           !.overlapped = overlapped ] ]
    /\ UNCHANGED << storageKind, isConnected, memoryDeals, saves,
                    envVars, filterVars, scrapeVars, proxyVars, pureVars, triggerVars >>

\* What getDeals and the other readers read
ReadableStore == IF isConnected THEN rows ELSE memoryDeals

\* ------------------------------------------------------------------------
\* Methods applied on their own, to arguments of every shape
\* ------------------------------------------------------------------------
Applied(fn, args, result) == Some([ fn |-> fn, args |-> args, result |-> result ])

AppliedIs(fn) == ~IsNull(probe) /\ probe[1].fn = fn

\* What a provider's JSON may hold where a number is expected: nothing usable
\* (Null), or a number, in range or not
RawNumbers == { Null, Some(0 - 50), Some(0), Some(10), Some(70), Some(71), Some(100),
                Some(150) }

\* actualDiscount values of a math-validation result, usual and extreme
ScoreDiscounts == { Rat(0 - 500, 1), Rat(0, 1), Rat(4900, 100), Rat(50, 1), Rat(9950, 100),
                    Rat(100, 1), Rat(100000, 1) }

\* Price texts as the sites show them, each with the price it stands for.
\* An amount is "$", the dollars with thousands separators, and the cents if any.
PriceSamples ==
    LET WithSeparators(digits) ==
            IF Len(digits) > 3
            THEN SubSeq(digits, 1, Len(digits) - 3) \o << 44 >>
                   \o SubSeq(digits, Len(digits) - 2, Len(digits))
            ELSE digits
        TwoDigits(n) == << 48 + (n \div 10), 48 + (n % 10) >>
        Amount(dollars, cents) ==
            [ text |-> << 36 >> \o WithSeparators(Digits(dollars))
                         \o ( IF IsNull(cents) THEN << >>
                              ELSE << 46 >> \o TwoDigits(cents[1]) ),
              shape |-> IF dollars >= 1000 THEN "thousands"
                        ELSE IF IsNull(cents) THEN "no cents" ELSE "amount",
              price |-> 100 * dollars + ( IF IsNull(cents) THEN 0 ELSE cents[1] ) ]
    IN
    { [ text |-> << 36, 49, 44, 50, 57, 57, 46, 57, 57 >>, shape |-> "thousands", price |-> 129999 ],
      [ text |-> << 57, 57, 32, 57, 57 >>, shape |-> "split", price |-> 9999 ],
      [ text |-> << 36, 49, 48, 32, 45, 32, 36, 50, 48 >>, shape |-> "range", price |-> 1000 ],
      [ text |-> << 36, 49, 48, 46, 53, 48, 32, 45, 32, 36, 50, 48, 46, 48, 48 >>, shape |-> "range", price |-> 1050 ],
      [ text |-> << 53, 48 >>, shape |-> "no cents", price |-> 5000 ] }
    \cup { Amount(dollars, cents) :
             dollars \in { 7, 50, 100, 129, 1299, 12999 },
             cents \in { Null, Some(0), Some(5), Some(99) } }

\* A strategy parses a price text with the site's priceParser.
ApplyPriceParser ==
    /\ IsNull(probe)
    /\ \E k \in 1..Len(SITE_CONFIGS), sample \in PriceSamples :
          probe' = Applied("priceParser",
                      [ site |-> SITE_CONFIGS[k].name, text |-> sample.text,
                        shape |-> sample.shape, price |-> sample.price ],
                      priceParser(sample.text))
    /\ UNCHANGED << envVars, filterVars, scrapeVars, proxyVars, storeVars, triggerVars >>

\* filterDeals, lines 384-416 taken alone: an analysis as parseAIResponse
\* returns it, the score, and the two numbers put into the FilteredDeal.
ApplyCalculateOverallScore ==
    /\ IsNull(probe)
    /\ \E valid \in BOOLEAN, actualDiscount \in ScoreDiscounts,
          rawConfidence \in RawNumbers, rawGlitch \in RawNumbers,
          factors \in 0..MaxFactors :
        LET mathValidation == [ valid |-> valid, actualDiscount |-> actualDiscount,
                                flags |-> << >> ]
            aiAnalysis == parseAIResponse(Behaviour("json", rawConfidence, rawGlitch,
                                                    "HIGH"))[1]
            suspiciousFactors == [ k \in 1..factors |-> "factor" ]
            confidenceScore == calculateOverallScore(mathValidation, aiAnalysis,
                                                     suspiciousFactors)
        IN  probe' = Applied("calculateOverallScore",
                        [ mathValidation |-> mathValidation,
                          rawConfidence |-> rawConfidence, rawGlitch |-> rawGlitch,
                          aiAnalysis |-> aiAnalysis, factors |-> factors ],
                        [ confidenceScore |-> confidenceScore,
                          pricingGlitchProbability |->
                              aiAnalysis.pricingGlitchProbability ])
    /\ UNCHANGED << envVars, filterVars, scrapeVars, proxyVars, storeVars, triggerVars >>

\* analyzeWithAI, the parseAIResponse call taken alone: a provider's text that
\* holds a JSON object whose number fields are missing, or numbers in range
\* or not, and whose recommendation is one of the three levels or not
ApplyParseAIResponse ==
    /\ IsNull(probe)
    /\ \E rawConfidence \in RawNumbers, rawGlitch \in RawNumbers,
          recommendation \in { "HIGH", "LOW", "BUY", "" } :
        LET raw == Behaviour("json", rawConfidence, rawGlitch, recommendation)
        IN  probe' = Applied("parseAIResponse", [ raw |-> raw ], parseAIResponse(raw))
    /\ UNCHANGED << envVars, filterVars, scrapeVars, proxyVars, storeVars, triggerVars >>

\* A strategy works on one listing of a page: the title, the price texts and
\* the availability found under the site's selectors.
ApplyProcessListing ==
    /\ IsNull(probe)
    /\ \E strategy \in { "Puppeteer", "Cheerio" },
          k \in 1..Len(SITE_CONFIGS),
          title \in { << >>, TitleTV },
          currentPriceText \in
            { << >>,   \* no text
              << 102, 114, 101, 101 >>,   \* free
              << 48 >>,   \* 0
              << 36, 52, 48, 46, 48, 48 >>,   \* $40.00
              << 36, 52, 53 >>,   \* $45
              << 36, 57, 48, 46, 48, 48 >>,   \* $90.00
              << 36, 57, 48, 46, 53, 48 >>,   \* $90.50
              << 36, 57, 49, 46, 48, 48 >>,   \* $91.00
              << 36, 57, 53, 46, 48, 48 >>    \* $95.00
            },
          originalPriceText \in
            { << >>,   \* no text
              << 78, 47, 65 >>,   \* N/A
              << 36, 48, 46, 48, 48 >>,   \* $0.00
              << 36, 52, 48, 46, 48, 48 >>,   \* $40.00
              << 36, 53, 48, 46, 48, 48 >>,   \* $50.00
              << 36, 57, 57, 46, 57, 57 >>   \* $99.99
            } :
        LET listing == [ title |-> title, currentPriceText |-> currentPriceText,
                         originalPriceText |-> originalPriceText,
                         availability |-> Unknown ]
        IN  probe' = Applied("processListing",
                             [ strategy |-> strategy, listing |-> listing ],
                             processListing(SITE_CONFIGS[k].name, listing))
    /\ UNCHANGED << envVars, filterVars, scrapeVars, proxyVars, storeVars, triggerVars >>

\* scrapeDeals, the first attempt of retryWithBackoff on one site taken alone:
\* the strategy (with a live browser for Puppeteer) meets a page of any kind.
ApplyFetchStrategy ==
    /\ IsNull(probe)
    /\ \E strategy \in { "Puppeteer", "Cheerio" },
          kind \in { "error", "noContainer", "products" },
          k \in 1..Len(SITE_CONFIGS), reachable \in Reachabilities :
        LET site == SITE_CONFIGS[k].name
            page == [ kind |-> kind,
                      deals |-> IF kind = "products" THEN << ScrapedDeal(site, 60) >>
                                ELSE << >> ]
            fetch == IF strategy = "Puppeteer"
                     THEN scrapeWithPuppeteer("live", page, proxyIndex, PROXY_HEALTH)
                     ELSE scrapeWithCheerio(page, PROXY_LIST, proxyIndex, PROXY_HEALTH,
                                            now, reachable)
            step == retryWithBackoff(1, ~IsNull(fetch.deals), 3, 2000)
        IN  /\ probe' = Applied("fetch",
                                [ strategy |-> strategy, page |-> kind,
                                  loaded |-> fetch.loaded ],
                                [ deals |-> fetch.deals, then |-> step.result ])
            /\ proxyIndex' = fetch.proxyIndex
            /\ PROXY_HEALTH' = fetch.health
            /\ proxyCalls' = proxyCalls \o fetch.calls
    /\ UNCHANGED << spc, sitesConfig, browser, browserInitialized, siteIndex, attempt,
                    allDeals, telemetry, attemptLog, sleeps, launched, closed,
                    scrapeMinDiscount, scrapeResult, toolResult, PROXY_LIST, now,
                    envVars, filterVars, storeVars, triggerVars >>

\* filterDeals, line 371 taken alone: the math validation of one deal, with
\* prices missing, zero, negative, equal, in either order
ApplyValidateDiscountMath ==
    /\ IsNull(probe)
    /\ \E originalPrice \in { Null, Some(0 - 100), Some(0), Some(1), Some(2000), Some(10000) },
          currentPrice \in { 0 - 500, 0, 1, 50, 100, 800, 1000, 1999, 2000, 3000, 4000,
                            6000 },
          discountPercentage \in { 0, 50, 55, 60, 65, 66, 90, 99 } :
        LET deal == Deal(EBay, TitleTV, originalPrice, currentPrice, discountPercentage,
                         Unknown)
        IN  probe' = Applied("validateDiscountMath", [ deal |-> deal ],
                             validateDiscountMath(deal))
    /\ UNCHANGED << envVars, filterVars, scrapeVars, proxyVars, storeVars, triggerVars >>

\* ------------------------------------------------------------------------
\* Specifications
\* ------------------------------------------------------------------------
InitFilter ==
    /\ fpc = "idle"
    /\ deals = << >>
    /\ minDiscountPercentage = 90
    /\ minConfidenceScore = 60
    /\ maxResults = 25
    /\ processed = 0
    /\ seenDeals = { }
    /\ filteredDeals = << >>
    /\ log = << >>
    /\ aiCalls = << >>
    /\ aiVerdict = Null
    /\ pauses = 0
    /\ returned = Null
    /\ seenEarlier = { }

InitScrape ==
    /\ spc = "idle"
    /\ sitesConfig = << >>
    /\ browser = "null"
    /\ browserInitialized = FALSE
    /\ proxyIndex = 0
    /\ siteIndex = 1
    /\ attempt = 1
    /\ allDeals = << >>
    /\ telemetry = [ sitesAttempted |-> 0, sitesSucceeded |-> 0, sitesFailed |-> 0,
                     totalDeals |-> 0, errors |-> << >> ]
    /\ attemptLog = << >>
    /\ sleeps = << >>
    /\ launched = 0
    /\ closed = 0
    /\ scrapeMinDiscount = Some(90)
    /\ scrapeResult = Null
    /\ toolResult = Null
    /\ PROXY_HEALTH = [ proxy \in AllProxies |-> Null ]
    /\ now = 0
    /\ proxyCalls = << >>

InitPure == probe = Null

\* No trigger run has started
InitTrigger == trigger = [ pc |-> "idle", failedAt |-> Null, error |-> Null ]

StorageHashes == { StorageHash(dealData) : dealData \in SavedDeals }

\* A process whose storage object has just been constructed, over a table that
\* is still empty.
InitStore ==
    /\ storageKind = "postgres"
    /\ isConnected = FALSE
    /\ rows = << >>
    /\ memoryDeals = << >>
    /\ saves = 0
    /\ lastSaved = [ hash \in StorageHashes |-> Null ]
    /\ saveCalls = [ call \in SaveCallIds |-> NoSaveCall ]

\* The filtering tool, executed once.
Init ==
    /\ envPerplexityKey \in BOOLEAN
    /\ envOpenAIKey \in BOOLEAN
    /\ PROXY_LIST = DefaultProxyList
    /\ InitFilter
    /\ InitScrape
    /\ InitPure
    /\ InitTrigger
    /\ InitStore

Next == FilterExecute \/ FilterProcessDeal \/ FilterReturn

Spec == Init /\ [][Next]_vars

\* The filtering tool, executed once on an input of ten deals.
NextBatch == FilterExecuteBatch \/ FilterProcessDeal \/ FilterReturn

SpecBatch == Init /\ [][NextBatch]_vars

\* The filtering tool, executed again and again in one process.
NextRerun == FilterExecuteAgain \/ FilterProcessDeal \/ FilterReturn

SpecRerun == Init /\ [][NextRerun]_vars

\* The scraping tool, executed once.
InitScraping ==
    /\ envPerplexityKey = TRUE
    /\ envOpenAIKey = TRUE
    /\ PROXY_LIST \in { ServiceProxyList, DefaultProxyList }
    /\ InitFilter
    /\ InitScrape
    /\ InitPure
    /\ InitTrigger
    /\ InitStore

\* Methods applied on their own.
InitFunctions ==
    /\ envPerplexityKey = TRUE
    /\ envOpenAIKey = TRUE
    /\ PROXY_LIST = DefaultProxyList
    /\ InitFilter
    /\ InitScrape
    /\ InitPure
    /\ InitTrigger
    /\ InitStore

NextFunctions ==
    \/ ApplyCalculateOverallScore \/ ApplyPriceParser \/ ApplyValidateDiscountMath
    \/ ApplyParseAIResponse \/ ApplyProcessListing \/ ApplyFetchStrategy

SpecFunctions == InitFunctions /\ [][NextFunctions]_vars

\* Proxies asked for while time passes.
NextProxy == RequestProxy \/ TimePasses

SpecProxy == InitScraping /\ [][NextProxy]_vars

\* Deals saved by a process whose storage object has just been constructed;
\* the table is empty or holds what an earlier process saved.
InitStorage ==
    /\ envPerplexityKey = TRUE
    /\ envOpenAIKey = TRUE
    /\ PROXY_LIST = DefaultProxyList
    /\ InitFilter
    /\ InitScrape
    /\ InitPure
    /\ InitTrigger
    /\ storageKind \in { "postgres", "mongo" }
    /\ isConnected = FALSE
    /\ memoryDeals = << >>
    /\ saves = 0
    /\ saveCalls = [ call \in SaveCallIds |-> NoSaveCall ]
    /\ \E earlier \in SUBSET { DealData(TV60, 60) } :
          /\ rows = IF earlier = { } THEN << >>
                    ELSE << dealWithDefaults(DealData(TV60, 60)) >>
          /\ lastSaved = [ hash \in StorageHashes |->
                             IF earlier # { } /\ hash = StorageHash(DealData(TV60, 60))
                             THEN Some(dealWithDefaults(DealData(TV60, 60)))
                             ELSE Null ]

NextStorage == StorageConnects \/ SaveDeal

SpecStorage == InitStorage /\ [][NextStorage]_vars

\* Two saveDeal calls on the PostgreSQL store, made once it is connected; the
\* table is empty or holds a deal saved by an earlier process.
InitConcurrentSaves ==
    /\ InitStorage
    /\ storageKind = "postgres"

NextConcurrentSaves == StorageConnects \/ SaveDealSelects \/ SaveDealWrites

SpecConcurrentSaves == InitConcurrentSaves /\ [][NextConcurrentSaves]_vars

\* initBrowser (a public method of the service) called once more while the
\* site loop runs with a live browser.
InitBrowserAgain ==
    /\ spc = "sites"
    /\ browser = "live"
    /\ IsNull(probe)
    /\ \E reachable \in Reachabilities, launchOk \in BOOLEAN :
        LET init == initBrowser(browser, PROXY_LIST, proxyIndex, PROXY_HEALTH, now,
                                reachable, launchOk)
        IN  /\ browser' = init.browser
            /\ proxyIndex' = init.proxyIndex
            /\ PROXY_HEALTH' = init.health
            /\ launched' = launched + init.launches
            /\ proxyCalls' = proxyCalls \o init.calls
            /\ probe' = Applied("initBrowser", [ browser |-> browser ],
                                [ launches |-> init.launches, threw |-> init.threw ])
    /\ UNCHANGED << spc, sitesConfig, browserInitialized, siteIndex, attempt, allDeals,
                    telemetry, attemptLog, sleeps, closed, scrapeMinDiscount,
                    scrapeResult, toolResult, PROXY_LIST, now, envVars, filterVars,
                    storeVars, triggerVars >>

NextScraping == ScrapeExecute \/ ScrapeAttempt \/ ScrapeReturn \/ InitBrowserAgain

SpecScraping == InitScraping /\ [][NextScraping]_vars

\* One scheduled run of the electronics trigger.
NextTrigger == TriggerStarts \/ ScrapeAttempt \/ ScrapeReturn \/ TriggerContinues

SpecTrigger == InitScraping /\ [][NextTrigger]_vars

\* ------------------------------------------------------------------------
\* Properties of the filtering tool
\* ------------------------------------------------------------------------
Duplicate == "Skipping duplicate deal"
MathFailed == "Deal failed math validation"
AIFailed == "Error processing deal"
Passed == "Deal passed filtering"
FilteredOut == "Deal filtered out"

AcceptedDeals == { filteredDeals[k].deal : k \in 1..Len(filteredDeals) }

\* The index of the first call of the last analyzeWithAI whose provider answered
\* with something parseAIResponse accepts (0 when there is none)
FirstAnswered ==
    IF \E k \in 1..Len(aiCalls) : aiCalls[k].does.kind = "json"
    THEN CHOOSE k \in 1..Len(aiCalls) :
            /\ aiCalls[k].does.kind = "json"
            /\ \A m \in 1..(k - 1) : aiCalls[m].does.kind # "json"
    ELSE 0

\* C4: analyzeWithAI calls the primary provider first; it calls the secondary
\* provider if and only if the primary call failed (it threw, or its text could
\* not be parsed), with the identical prompt; the verdict is that of the first
\* provider that succeeded, and there is none when both failed.
C4_PrimaryThenFallback ==
    Len(aiCalls) > 0 =>
        /\ aiCalls[1].provider = "Perplexity"
        /\ Len(aiCalls) <= 2
        /\ (Len(aiCalls) = 2) <=> (aiCalls[1].does.kind \in { "throw", "garbage" })
        /\ Len(aiCalls) = 2 =>
              /\ aiCalls[2].provider = "OpenAI"
              /\ aiCalls[2].content = aiCalls[1].content
        /\ aiCalls[1].content = Prompt(deals[processed])
        /\ IF FirstAnswered = 0 THEN IsNull(aiVerdict)
           ELSE /\ ~IsNull(aiVerdict)
                /\ aiVerdict[1].provider = aiCalls[FirstAnswered].provider
                /\ Some(aiVerdict[1].analysis) = parseAIResponse(aiCalls[FirstAnswered].does)

C4_Witness ==
    /\ Len(aiCalls) = 2
    /\ aiCalls[1].does.kind = "garbage"
    /\ ~IsNull(aiVerdict)
    /\ aiVerdict[1].provider = "OpenAI"

\* C5: a deal for which both providers fail is skipped and nothing else: execute
\* does not raise, the deal is not among the accepted deals, and when execute
\* returns every deal of the input has been through the loop.
C5_AIFailureSkipsOneDeal ==
    /\ \A i \in 1..Len(log) :
          log[i] = AIFailed => ( fpc # "raised" /\ deals[i] \notin AcceptedDeals )
    /\ fpc = "returned" => Len(log) = Len(deals)

C5_Witness ==
    /\ fpc = "returned"
    /\ Len(log) = 2
    /\ log[1] = AIFailed
    /\ log[2] = Passed
    /\ Len(returned[1]) = 1

\* Two deals with the same site, the same title up to letter case and
\* surrounding white space, and the same currentPrice
SameIdentity(a, b) ==
    /\ a.site = b.site
    /\ trim(toLowerCase(a.title)) = trim(toLowerCase(b.title))
    /\ a.currentPrice = b.currentPrice

\* C6: within one filterDeals call two deals of the same identity have the same
\* hash, the second is dropped as a duplicate before validation and analysis,
\* and at most one of them is accepted.
C6_SameIdentityDeduplicated ==
    \A i \in 1..Len(log) : \A j \in (i + 1)..Len(log) :
        SameIdentity(deals[i], deals[j]) =>
            /\ DealHashes[deals[i]] = DealHashes[deals[j]]
            /\ log[j] = Duplicate
            /\ Cardinality({ k \in 1..Len(filteredDeals) :
                               filteredDeals[k].deal \in { deals[i], deals[j] } }) <= 1

C6_Witness ==
    /\ fpc = "returned"
    /\ deals = << TV60, TV60Variant >>
    /\ log = << Passed, Duplicate >>

\* C7 as claimed: a deal whose hash was recorded earlier in the life of the
\* process, by this execute or by an earlier one, is dropped as a duplicate.
C7_ProcessLifetimeDedup ==
    \A i \in 1..Len(log) :
        DealHashes[deals[i]] \in seenEarlier => log[i] = Duplicate

\* C7, amended: the registry lives as long as one execute.  A deal is dropped as
\* a duplicate exactly when an earlier deal of the same input has its hash;
\* what earlier executes recorded plays no part.
C7_PerExecutionDedup ==
    \A i \in 1..Len(log) :
        (log[i] = Duplicate) <=>
            (\E j \in 1..(i - 1) : DealHashes[deals[j]] = DealHashes[deals[i]])

C7_Witness ==
    /\ Len(log) = 1
    /\ DealHashes[deals[1]] \in seenEarlier
    /\ log[1] = Passed

\* C8 as claimed: deals that differ in currentPrice or in the normalized title
\* have different hashes, and a deal is dropped as a duplicate only of a deal of
\* the same identity.
C8_HashDistinguishesWholeKey ==
    \A j \in 1..Len(log) :
        /\ \A i \in 1..(j - 1) :
              ~SameIdentity(deals[i], deals[j]) =>
                  DealHashes[deals[i]] # DealHashes[deals[j]]
        /\ log[j] = Duplicate =>
              \E i \in 1..(j - 1) : SameIdentity(deals[i], deals[j])

\* C9: a deal that reaches the decision step is accepted if and only if
\* (actualDiscount >= minDiscountPercentage or pricingGlitchProbability >= 70)
\* and confidenceScore >= minConfidenceScore; a deal of actual discount 49 is
\* not accepted with minDiscountPercentage 50, whatever glitch probability the
\* providers would report for it, 40 included.
C9_AcceptanceRule ==
  /\ \A i \in 1..Len(log) :
        ( /\ MathValidations[deals[i]].actualDiscount.num
                = 49 * MathValidations[deals[i]].actualDiscount.den
          /\ minDiscountPercentage = 50 ) => deals[i] \notin AcceptedDeals
  /\
    ( fpc = "loop" /\ processed > 0 /\ log[processed] \in { Passed, FilteredOut } ) =>
        LET deal == deals[processed]
            mathValidation == validateDiscountMath(deal)
            aiAnalysis == aiVerdict[1].analysis
            score == calculateOverallScore(mathValidation, aiAnalysis,
                                           detectSuspiciousPricing(deal))
            rule == /\ \/ mathValidation.actualDiscount.num
                            >= minDiscountPercentage * mathValidation.actualDiscount.den
                       \/ aiAnalysis.pricingGlitchProbability >= 70
                    /\ score >= minConfidenceScore
            pushed == /\ Len(filteredDeals) > 0
                      /\ filteredDeals[Len(filteredDeals)].deal = deal
                      /\ Cardinality({ k \in 1..Len(filteredDeals) :
                                         filteredDeals[k].deal = deal }) = 1
        IN  /\ (log[processed] = Passed) <=> rule
            /\ (log[processed] = Passed) <=> pushed

C9_Witness ==
    /\ fpc = "loop"
    /\ processed = 1
    /\ deals[1] = TV60
    /\ minDiscountPercentage = 90
    /\ minConfidenceScore = 60
    /\ log[1] = FilteredOut
    /\ aiVerdict[1].analysis.confidenceScore = 90
    /\ aiVerdict[1].analysis.pricingGlitchProbability = 40

\* C10 as claimed: a deal whose price-derived discount is below 50% is not
\* turned away by math validation; it is analysed, and accepted when the
\* analysis reports a glitch probability of 70 or more.
C10_LowDiscountReachesAI ==
    \A i \in 1..Len(log) :
        LET mathValidation == MathValidations[deals[i]]
        IN  ( /\ RatGreater(mathValidation.actualDiscount, 0)
              /\ RatLess(mathValidation.actualDiscount, 50) ) => log[i] # MathFailed

\* C12: the list filterDeals returns has at most maxResults elements, all of
\* them accepted deals, in order of non-increasing
\* confidenceScore + 0.5 * pricingGlitchProbability, and no accepted deal that
\* was left out ranks above a deal that was returned.
C12_SortedAndTruncated ==
    fpc = "returned" =>
        LET out == returned[1]
            leftOut == Range(filteredDeals) \ Range(out)
        IN  /\ Len(out) <= maxResults
            /\ Range(out) \subseteq Range(filteredDeals)
            /\ \A k \in 1..(Len(out) - 1) : RankKey(out[k]) >= RankKey(out[k + 1])
            /\ \A d \in leftOut : \A k \in 1..Len(out) : RankKey(d) <= RankKey(out[k])

C12_Witness ==
    /\ fpc = "returned"
    /\ log = << Passed, Passed >>
    /\ maxResults = 1
    /\ Len(returned[1]) = 1
    /\ returned[1][1].deal = deals[2]
    /\ \E d \in Range(filteredDeals) : RankKey(d) < RankKey(returned[1][1])

\* C15: with neither provider key configured execute raises before any deal is
\* processed: no loop iteration starts, no hash is recorded, no provider is
\* called.  With at least one key configured execute does not raise: it goes
\* through every deal and returns.
C15_NoCredentialsRaisesFirst ==
    IF ~envPerplexityKey /\ ~envOpenAIKey
    THEN /\ fpc \in { "idle", "raised" }
         /\ processed = 0
         /\ log = << >>
         /\ seenDeals = { }
         /\ seenEarlier = { }
         /\ aiCalls = << >>
         /\ IsNull(returned)
    ELSE /\ fpc # "raised"
         /\ fpc = "returned" => ( processed = Len(deals) /\ ~IsNull(returned) )

C15_Witness ==
    /\ ~envPerplexityKey
    /\ ~envOpenAIKey
    /\ fpc = "raised"
    /\ Len(deals) = 2

\* ------------------------------------------------------------------------
\* Properties of the scraping tool
\* ------------------------------------------------------------------------
\* The attempts made on a site, in order
AttemptsOn(site) == SelectSeq(attemptLog, LAMBDA entry : entry.site = site)

\* The sites in the order of their first attempts
SitesTried ==
    LET firsts == SelectSeq(attemptLog, LAMBDA entry : entry.attempt = 1)
    IN  [ k \in 1..Len(firsts) |-> firsts[k].site ]

\* The deals of the attempts that succeeded, in order
RECURSIVE DealsFetched(_)
DealsFetched(entries) ==
    IF Len(entries) = 0 THEN << >>
    ELSE DealsFetched(SubSeq(entries, 1, Len(entries) - 1)) \o
           ( IF entries[Len(entries)].ok THEN entries[Len(entries)].deals[1] ELSE << >> )

Occurrences(s, x) == Cardinality({ k \in 1..Len(s) : s[k] = x })

SameDeals(s, t) ==
    /\ Len(s) = Len(t)
    /\ \A k \in 1..Len(s) : Occurrences(s, s[k]) = Occurrences(t, s[k])

FailedEveryAttempt(site) ==
    /\ Len(AttemptsOn(site)) = 3
    /\ \A k \in 1..3 : ~AttemptsOn(site)[k].ok

\* C1: a site whose fetch fails on every attempt does not end the run.  The
\* sites are tried in registry order whatever happened to the sites before,
\* execute does not raise, and once scrapeDeals has returned every selected
\* site has been tried and the result holds the deals of every site that
\* succeeded.
C1_SiteFailureNeverAbortsRun ==
    /\ spc # "raised"
    /\ spc # "idle" =>
          /\ Len(SitesTried) <= Len(sitesConfig)
          /\ \A k \in 1..Len(SitesTried) : SitesTried[k] = sitesConfig[k].name
          /\ \A k \in 1..Len(sitesConfig) :
                FailedEveryAttempt(sitesConfig[k].name) =>
                    ( siteIndex > k /\ sitesConfig[k].name \in Range(telemetry.errors) )
          /\ SameDeals(allDeals, DealsFetched(attemptLog))
    /\ spc = "returned" =>
          /\ Len(SitesTried) = Len(sitesConfig)
          /\ SameDeals(scrapeResult[1], DealsFetched(attemptLog))

C1_Witness ==
    /\ spc = "returned"
    /\ Len(sitesConfig) = 2
    /\ FailedEveryAttempt(sitesConfig[1].name)
    /\ AttemptsOn(sitesConfig[2].name)[1].ok
    /\ Len(scrapeResult[1]) = 2

C3_ThirdAttemptSucceeds ==
    \A k \in 1..Len(sitesConfig) :
        LET site == sitesConfig[k].name
            tries == AttemptsOn(site)
        IN  /\ Len(tries) <= 3
            /\ \A n \in 1..Len(tries) : tries[n].attempt = n
            /\ ( Len(tries) >= 2 /\ ~tries[1].ok /\ ~tries[2].ok /\ siteIndex > k ) =>
                   Len(tries) = 3
            /\ ( Len(tries) = 3 /\ tries[3].ok ) =>
                   /\ siteIndex > k
                   /\ site \notin Range(telemetry.errors)
                   /\ telemetry.sitesSucceeded =
                          Cardinality({ m \in 1..Len(attemptLog) : attemptLog[m].ok })
                   /\ \A d \in Range(tries[3].deals[1]) : d \in Range(allDeals)
                   /\ spc # "raised"
                   /\ spc = "returned" =>
                          \A d \in Range(tries[3].deals[1]) : d \in Range(scrapeResult[1])

C3_Witness ==
    /\ spc = "returned"
    /\ Len(attemptLog) = 3
    /\ attemptLog[1].site = EBay
    /\ ~attemptLog[1].ok
    /\ ~attemptLog[2].ok
    /\ attemptLog[3].ok
    /\ telemetry.sitesSucceeded = 1
    /\ telemetry.sitesFailed = 0
    /\ Len(scrapeResult[1]) = 2

\* The waits that follow the attempts of a log, in order: the backoff after a
\* failed attempt that is retried, the pause that follows a site's success
RECURSIVE WaitsAfter(_)
WaitsAfter(tried) ==
    IF Len(tried) = 0 THEN << >>
    ELSE LET last == tried[Len(tried)]
         IN  WaitsAfter(SubSeq(tried, 1, Len(tried) - 1))
               \o ( IF last.ok THEN << 2000 >>
                    ELSE IF IsNull(last.backoff) THEN << >>
                    ELSE << last.backoff[1] >> )

\* C18: retryWithBackoff (called with 3 attempts and a base delay of 2000 ms)
\* invokes the fetch at most 3 times for a site and not again after a success;
\* after failed attempt k (k = 1, 2) it waits 2000 * 2^(k-1) ms and then makes
\* attempt k+1; after a third failure it waits for nothing and throws, so that
\* the call site records the site as failed.
C18_ThreeAttemptsExponentialBackoff ==
    LET baseDelay == 2000
    IN  /\ \A m \in 1..Len(attemptLog) :
              LET try == attemptLog[m]
                  isLast == m = Len(attemptLog)
              IN  /\ try.attempt \in 1..3
                  /\ try.ok =>
                        /\ IsNull(try.backoff)
                        /\ ~isLast => attemptLog[m + 1].attempt = 1
                        /\ isLast => attempt = 1
                  /\ ( ~try.ok /\ try.attempt < 3 ) =>
                        /\ try.backoff = Some(baseDelay * (2 ^ (try.attempt - 1)))
                        /\ ~isLast =>
                              /\ attemptLog[m + 1].site = try.site
                              /\ attemptLog[m + 1].attempt = try.attempt + 1
                        /\ isLast => attempt = try.attempt + 1 /\ spc = "sites"
                  /\ ( ~try.ok /\ try.attempt = 3 ) =>
                        /\ IsNull(try.backoff)
                        /\ try.site \in Range(telemetry.errors)
                        /\ ~isLast => attemptLog[m + 1].attempt = 1
                        /\ isLast => attempt = 1
        /\ sleeps = WaitsAfter(attemptLog)
        /\ telemetry.sitesFailed =
              Cardinality({ m \in 1..Len(attemptLog) :
                              ~attemptLog[m].ok /\ attemptLog[m].attempt = 3 })

\* One site fails three times, the other succeeds at its second attempt.
C18_Witness ==
    /\ Len(attemptLog) = 5
    /\ \A m \in 1..3 : ~attemptLog[m].ok /\ attemptLog[m].attempt = m
    /\ ~attemptLog[4].ok
    /\ attemptLog[5].ok /\ attemptLog[5].attempt = 2
    /\ sleeps = << 2000, 4000, 2000, 2000 >>
    /\ telemetry.sitesFailed = 1
    /\ telemetry.sitesSucceeded = 1

\* C19: during a scraping run the browser is launched at most once, and only
\* when a selected site requires a browser; at most one browser is live at any
\* time; initBrowser called while a browser is live launches nothing and does
\* not fail; and every attempt made with the browser strategy is made on a site
\* that requires a browser, in a run whose browser was launched and is live
\* for as long as the site loop runs.
C19_AtMostOneBrowserLaunchedOnNeed ==
    LET requiresBrowser(site) ==
            \E k \in 1..Len(sitesConfig) :
                sitesConfig[k].name = site /\ sitesConfig[k].requiresJS
    IN  /\ launched <= 1
        /\ launched - closed = ( IF browser = "live" THEN 1 ELSE 0 )
        /\ launched = 1 => \E k \in 1..Len(sitesConfig) : sitesConfig[k].requiresJS
        /\ AppliedIs("initBrowser") =>
              /\ probe[1].args.browser = "live"
              /\ probe[1].result = [ launches |-> 0, threw |-> FALSE ]
        /\ \A m \in 1..Len(attemptLog) :
              attemptLog[m].strategy = "Puppeteer" =>
                  /\ requiresBrowser(attemptLog[m].site)
                  /\ browserInitialized
                  /\ launched = 1
                  /\ spc = "sites" => browser = "live"

\* A run that launched the browser, fetched a site with it, had initBrowser
\* called a second time, and is over with the browser closed.
C19_Witness ==
    /\ spc = "returned"
    /\ AppliedIs("initBrowser")
    /\ \E m \in 1..Len(attemptLog) :
          attemptLog[m].strategy = "Puppeteer" /\ attemptLog[m].ok
    /\ \E m \in 1..Len(attemptLog) : attemptLog[m].strategy = "Cheerio"
    /\ launched = 1
    /\ closed = 1
    /\ browser = "null"

\* ------------------------------------------------------------------------
\* Properties of proxy selection
\* ------------------------------------------------------------------------
\* What the cache says of a proxy once the call is over
HealthyAfter(call, proxy) == call.after[proxy][1].working

IsInjective(s) == \A i, j \in 1..Len(s) : s[i] = s[j] => i = j

IndexIn(seq, x) == IF \E k \in 1..Len(seq) : seq[k] = x
                   THEN CHOOSE k \in 1..Len(seq) : seq[k] = x ELSE 0

\* C14: a health result, good or bad, is kept for 5 minutes.  A proxy examined
\* less than 5 minutes after its last check is not requested over the network:
\* its cache entry stays and decides whether the proxy is returned.  A proxy
\* never checked, or last checked 5 minutes ago or more, is requested, and its
\* entry becomes the answer, stamped with the time of the call.
C14_HealthCachedFiveMinutes ==
    \A k \in 1..Len(proxyCalls) :
        LET call == proxyCalls[k]
        IN  /\ \A p \in AllProxies \ Range(call.examined) : call.after[p] = call.before[p]
            /\ \A i \in 1..Len(call.examined) :
                  LET p == call.examined[i]
                      cached == call.before[p]
                      recent == /\ ~IsNull(cached)
                                /\ call.time - cached[1].lastChecked < 5 * 60 * 1000
                      working == call.after[p][1].working
                  IN  /\ IF recent
                         THEN /\ p \notin Range(call.requests)
                              /\ call.after[p] = cached
                         ELSE /\ p \in Range(call.requests)
                              /\ call.after[p] =
                                   Some([ working |-> call.answers[IndexIn(call.requests, p)],
                                          lastChecked |-> call.time ])
                      /\ working <=> call.proxy = Some(p)

C14_Witness ==
    /\ PROXY_LIST = ServiceProxyList
    /\ Len(proxyCalls) = 3
    /\ proxyCalls[1].time = 0
    /\ proxyCalls[1].requests = ServiceProxyList
    /\ proxyCalls[1].proxy = Some(ServiceProxyList[1])
    /\ proxyCalls[2].time = 5 * 60 * 1000 - Tick
    /\ proxyCalls[2].requests = << >>
    /\ proxyCalls[2].proxy = Some(ServiceProxyList[1])
    /\ proxyCalls[3].time = 5 * 60 * 1000
    /\ proxyCalls[3].requests = ServiceProxyList
    /\ IsNull(proxyCalls[3].proxy)

\* ------------------------------------------------------------------------
\* Properties of deal storage
\* ------------------------------------------------------------------------
\* C16 as claimed: after any sequence of saveDeal calls the store holds at most
\* one record per identity hash, and that record carries the data of the most
\* recent save for that hash.
C16_UpsertByHash ==
    /\ \A hash \in StorageHashes :
          Cardinality({ k \in 1..Len(ReadableStore) : ReadableStore[k].hash = hash }) <= 1
    /\ \A k \in 1..Len(ReadableStore) :
          Some(ReadableStore[k]) = lastSaved[ReadableStore[k].hash]

\* ------------------------------------------------------------------------
\* Properties of methods applied on their own
\* ------------------------------------------------------------------------
\* C11: whatever the math-validation result, the provider's numbers and the
\* number of suspicious factors, calculateOverallScore returns a value in
\* [0,100]; the confidenceScore and the pricingGlitchProbability that go into a
\* FilteredDeal are both in [0,100].
C11_ScoreWithinBounds ==
    AppliedIs("calculateOverallScore") =>
        /\ probe[1].result.confidenceScore \in 0..100
        /\ probe[1].result.pricingGlitchProbability \in 0..100

C11_Witness ==
    /\ AppliedIs("calculateOverallScore")
    /\ probe[1].args.mathValidation = [ valid |-> TRUE, actualDiscount |-> Rat(100, 1),
                                        flags |-> << >> ]
    /\ probe[1].args.rawConfidence = Some(150)
    /\ probe[1].args.rawGlitch = Some(150)
    /\ probe[1].args.factors = 0
    /\ probe[1].result = [ confidenceScore |-> 100, pricingGlitchProbability |-> 100 ]

\* C17 as claimed: for each site, priceParser returns the price a text stands
\* for when the text is of one of the documented shapes: thousands separators
\* and cents (any amount of three or more dollar digits included), split
\* dollars and cents, a range (its lower bound), and a price without cents.
C17_PriceParserReturnsTruePrice ==
    AppliedIs("priceParser") => probe[1].result = Some(probe[1].args.price)

\* C20: validateDiscountMath returns an invalid result with actualDiscount 0
\* and exactly one flag, which names the reason, when originalPrice is null or
\* <= 0, or currentPrice <= 0, or currentPrice >= originalPrice; for every
\* other deal the actualDiscount it returns is
\* 100 * (originalPrice - currentPrice) / originalPrice.
C20_RejectsUnusablePrices ==
    AppliedIs("validateDiscountMath") =>
        LET deal == probe[1].args.deal
            validation == probe[1].result
            noOriginal == IsNull(deal.originalPrice) \/ deal.originalPrice[1] <= 0
            noCurrent == deal.currentPrice <= 0
            notLower == ~IsNull(deal.originalPrice)
                            /\ deal.currentPrice >= deal.originalPrice[1]
        IN  IF noOriginal \/ noCurrent \/ notLower THEN
                /\ ~validation.valid
                /\ validation.actualDiscount.num = 0
                /\ Len(validation.flags) = 1
                /\ validation.flags[1] = "No valid original price provided" => noOriginal
                /\ validation.flags[1] = "Invalid current price" => noCurrent
                /\ validation.flags[1] = "Current price is not lower than original price"
                       => notLower
                /\ validation.flags[1] \in
                       { "No valid original price provided", "Invalid current price",
                         "Current price is not lower than original price" }
            ELSE
                \* equal as fractions: same whole part, same fractional part
                LET num == 100 * (deal.originalPrice[1] - deal.currentPrice)
                    den == deal.originalPrice[1]
                    actual == validation.actualDiscount
                IN  /\ actual.den > 0
                    /\ actual.num \div actual.den = num \div den
                    /\ (actual.num % actual.den) * den = (num % den) * actual.den

\* A deal offered at its original price, rejected with one flag.
C20_Witness ==
    /\ AppliedIs("validateDiscountMath")
    /\ probe[1].args.deal.originalPrice = Some(2000)
    /\ probe[1].args.deal.currentPrice = 2000
    /\ ~probe[1].result.valid
    /\ probe[1].result.flags = << "Current price is not lower than original price" >>

\* C21: for a deal whose prices pass the price checks, validateDiscountMath
\* adds the mismatch flag exactly when the price-derived and the reported
\* discount differ by more than 5 points, and the validity it returns is that
\* of the price-derived discount alone (at least 50), flagged or not; the deal
\* with original 100.00, current 40.00 and reported 90 gets actualDiscount 60
\* and the mismatch flag and is valid.
C21_MismatchFlagsWithoutRejecting ==
    AppliedIs("validateDiscountMath") =>
        LET deal == probe[1].args.deal
            validation == probe[1].result
            pricesPass == /\ ~IsNull(deal.originalPrice)
                          /\ deal.originalPrice[1] > 0
                          /\ deal.currentPrice > 0
                          /\ deal.currentPrice < deal.originalPrice[1]
        IN  pricesPass =>
              LET original == deal.originalPrice[1]
                  actualTimesOriginal == 100 * (original - deal.currentPrice)
                  apart == Abs(actualTimesOriginal - deal.discountPercentage * original)
                  flagged == "Discount mismatch" \in Range(validation.flags)
              IN  /\ flagged <=> apart > 5 * original
                  /\ validation.valid <=> actualTimesOriginal >= 50 * original
                  /\ ( original = 10000 /\ deal.currentPrice = 4000
                         /\ deal.discountPercentage = 90 ) =>
                        /\ validation.actualDiscount = Rat(60 * original, original)
                        /\ flagged
                        /\ validation.valid

\* The deal of the example, flagged and valid.
C21_Witness ==
    /\ AppliedIs("validateDiscountMath")
    /\ probe[1].args.deal.originalPrice = Some(10000)
    /\ probe[1].args.deal.currentPrice = 4000
    /\ probe[1].args.deal.discountPercentage = 90
    /\ probe[1].result.valid
    /\ probe[1].result.flags = << "Discount mismatch" >>

\* The deal of a validateDiscountMath call passes the three price checks
PricesPass(deal) ==
    /\ ~IsNull(deal.originalPrice)
    /\ deal.originalPrice[1] > 0
    /\ deal.currentPrice > 0
    /\ deal.currentPrice < deal.originalPrice[1]

\* The result is the outright rejection of the self-consistency guard
RejectedOutright(validation) ==
    /\ ~validation.valid
    /\ "Reported discount much higher than calculated - suspicious"
           \in Range(validation.flags)

\* C22 as claimed: math validation rejects a deal outright when actualDiscount
\* is above 95 and the reported discount is at least 90 while the actual one is
\* below 50, and under no other condition; a deal with actualDiscount above 95
\* and a reported discount within 5 points of it is not rejected.
C22_RejectsOutrightAbove95 ==
    ( AppliedIs("validateDiscountMath") /\ PricesPass(probe[1].args.deal) ) =>
        LET deal == probe[1].args.deal
            validation == probe[1].result
            original == deal.originalPrice[1]
            actualTimesOriginal == 100 * (original - deal.currentPrice)
            above95 == actualTimesOriginal > 95 * original
            farAbove == deal.discountPercentage >= 90
                            /\ actualTimesOriginal < 50 * original
        IN  /\ RejectedOutright(validation) <=> ( above95 /\ farAbove )
            /\ ( above95 /\ Abs(actualTimesOriginal - deal.discountPercentage * original)
                                <= 5 * original ) => validation.valid

\* C22, amended: math validation rejects a deal outright exactly when the
\* reported discount is at least 90 while the actual one is below 50, whether
\* or not anything is above 95; an actualDiscount above 95 adds the
\* pricing-glitch flag and never makes the deal invalid, whatever the reported
\* discount.
C22_RejectsOutrightFarAboveActual ==
    ( AppliedIs("validateDiscountMath") /\ PricesPass(probe[1].args.deal) ) =>
        LET deal == probe[1].args.deal
            validation == probe[1].result
            original == deal.originalPrice[1]
            actualTimesOriginal == 100 * (original - deal.currentPrice)
            above95 == actualTimesOriginal > 95 * original
            farAbove == deal.discountPercentage >= 90
                            /\ actualTimesOriginal < 50 * original
        IN  /\ RejectedOutright(validation) <=> farAbove
            /\ above95 <=>
                  "Extremely high discount (>95%) - likely pricing glitch"
                      \in Range(validation.flags)
            /\ above95 => validation.valid /\ ~RejectedOutright(validation)

\* A deal at 40% off reported as 90% off, rejected outright.
C22_Witness ==
    /\ AppliedIs("validateDiscountMath")
    /\ probe[1].args.deal.originalPrice = Some(10000)
    /\ probe[1].args.deal.currentPrice = 6000
    /\ probe[1].args.deal.discountPercentage = 90
    /\ RejectedOutright(probe[1].result)
    /\ Len(probe[1].result.flags) = 2

\* The score of the documented formula for the arguments of a
\* calculateOverallScore call, times 10 * den (den the denominator of
\* actualDiscount), before any rounding or clamping: 50, plus
\* min(30, actualDiscount * 0.3) if math-valid else minus 20, plus
\* aiConfidence / 100 * 40, minus min(30, 5 * factors), plus 20 if `bonus`
ScoreTimesTenDen(args, bonus) ==
    LET den == args.mathValidation.actualDiscount.den
        num == args.mathValidation.actualDiscount.num
    IN  500 * den
          + ( IF args.mathValidation.valid
              THEN ( IF 3 * num < 300 * den THEN 3 * num ELSE 300 * den )
              ELSE 0 - 200 * den )
          + 4 * args.aiAnalysis.confidenceScore * den
          - ( IF 5 * args.factors < 30 THEN 5 * args.factors ELSE 30 ) * 10 * den
          + ( IF bonus THEN 200 * den ELSE 0 )

\* C23 as claimed: the score is that sum clamped to [0,100], with the 20-point
\* bonus for a pricingGlitchProbability above 70, and every deal that qualifies
\* as a pricing glitch for acceptance (probability at least 70) has the bonus
\* in its score.
C23_ScoreIsClampedSumWithGlitchBonus ==
    AppliedIs("calculateOverallScore") =>
        LET args == probe[1].args
            tenDen == 10 * args.mathValidation.actualDiscount.den
            score == probe[1].result.confidenceScore
            glitch == args.aiAnalysis.pricingGlitchProbability
            Clamped(sum) == Max(0, Min(100 * tenDen, sum))
        IN  /\ score * tenDen = Clamped(ScoreTimesTenDen(args, glitch > 70))
            /\ glitch >= 70 => score * tenDen = Clamped(ScoreTimesTenDen(args, TRUE))

\* C23, amended: the score is that sum rounded to the nearest integer (halves
\* up) and then clamped to [0,100], with the 20-point bonus only for a
\* pricingGlitchProbability strictly above 70: at exactly 70, where the deal
\* qualifies as a pricing glitch for acceptance, the score has no bonus.
C23_ScoreIsRoundedClampedSum ==
    AppliedIs("calculateOverallScore") =>
        LET args == probe[1].args
            tenDen == 10 * args.mathValidation.actualDiscount.den
            score == probe[1].result.confidenceScore
            glitch == args.aiAnalysis.pricingGlitchProbability
            RoundedClamped(sum) == Max(0, Min(100, (2 * sum + tenDen) \div (2 * tenDen)))
        IN  /\ score = RoundedClamped(ScoreTimesTenDen(args, glitch > 70))
            /\ glitch = 70 => score = RoundedClamped(ScoreTimesTenDen(args, FALSE))

\* A math-valid deal at 50% off, confidence 10, glitch probability exactly 70:
\* 50 + 15 + 4 = 69, without the bonus.
C23_Witness ==
    /\ AppliedIs("calculateOverallScore")
    /\ probe[1].args.mathValidation.valid
    /\ probe[1].args.mathValidation.actualDiscount = Rat(50, 1)
    /\ probe[1].args.aiAnalysis.confidenceScore = 10
    /\ probe[1].args.aiAnalysis.pricingGlitchProbability = 70
    /\ probe[1].args.factors = 0
    /\ probe[1].result.confidenceScore = 69

\* C24 as claimed: parseAIResponse does not raise on a JSON object with
\* missing or invalid fields; it returns every confidenceScore and
\* pricingGlitchProbability that is a number clamped to [0,100] (a
\* confidenceScore of 0 stays 0), returns a recommendation that is one of the
\* three levels as it is, and puts 50, 0 and MEDIUM where the field is missing
\* or invalid.
C24_DefaultsOnlyForMissingFields ==
    AppliedIs("parseAIResponse") =>
        LET raw == probe[1].args.raw
            Kept(field, default) ==
                IF IsNull(field) THEN default ELSE Max(0, Min(100, field[1]))
        IN  /\ ~IsNull(probe[1].result)
            /\ probe[1].result[1].confidenceScore = Kept(raw.confidenceScore, 50)
            /\ probe[1].result[1].pricingGlitchProbability
                   = Kept(raw.pricingGlitchProbability, 0)
            /\ probe[1].result[1].recommendation =
                   ( IF raw.recommendation \in { "HIGH", "MEDIUM", "LOW" }
                     THEN raw.recommendation ELSE "MEDIUM" )
            /\ probe[1].result[1].suspiciousFactors = raw.suspiciousFactors

\* C25: a Deal that a fetch strategy makes of a listing has a non-empty title,
\* a currentPrice above 0, an originalPrice that is not null and is above the
\* currentPrice, and a discountPercentage that is
\* 100 * (originalPrice - currentPrice) / originalPrice rounded to the nearest
\* integer and is at least 10; and a listing with a title and a current price
\* above 0 is dropped exactly when the discount computed from its prices (0
\* without an original price above the current one) is below 10.
C25_EmittedDealsAreDiscounted ==
    AppliedIs("processListing") =>
        LET listing == probe[1].args.listing
            emitted == probe[1].result
            current == priceParser(listing.currentPriceText)
            original == priceParser(listing.originalPriceText)
            usable == Len(listing.title) > 0 /\ ~IsNull(current) /\ current[1] > 0
            discounted == ~IsNull(original) /\ original[1] > current[1]
            belowTen == discounted => 100 * (original[1] - current[1]) < 10 * original[1]
        IN  /\ ~IsNull(emitted) =>
                LET deal == emitted[1]
                    o == deal.originalPrice[1]
                    twiceExact == 200 * (o - deal.currentPrice)
                IN  /\ Len(deal.title) > 0
                    /\ deal.currentPrice > 0
                    /\ ~IsNull(deal.originalPrice)
                    /\ o > deal.currentPrice
                    \* discountPercentage - 1/2 <= exact < discountPercentage + 1/2
                    /\ ( 2 * deal.discountPercentage - 1 ) * o <= twiceExact
                    /\ twiceExact < ( 2 * deal.discountPercentage + 1 ) * o
                    /\ deal.discountPercentage >= 10
            /\ ~usable => IsNull(emitted)
            /\ usable => ( IsNull(emitted) <=> belowTen )

\* A listing at 90.00 down from 99.99 (a discount of 9.99%, which rounds to
\* 10) is dropped, whichever strategy read it.
C25_Witness ==
    /\ AppliedIs("processListing")
    /\ probe[1].args.strategy = "Puppeteer"
    /\ priceParser(probe[1].args.listing.currentPriceText) = Some(9000)
    /\ priceParser(probe[1].args.listing.originalPriceText) = Some(9999)
    /\ Len(probe[1].args.listing.title) > 0
    /\ IsNull(probe[1].result)

\* C26 as claimed: a fetch strategy that loads a page without the site's
\* product container raises, so that retryWithBackoff goes on to another
\* attempt: it does not return a list of deals, empty or not.
C26_MissingContainerRaises ==
    ( AppliedIs("fetch") /\ probe[1].args.loaded /\ probe[1].args.page = "noContainer" ) =>
        /\ IsNull(probe[1].result.deals)
        /\ probe[1].result.then = "retry"

\* C28: within one service instance the identity hash of every deal the loop
\* has come to is in seenDeals, whatever became of the deal (dropped by math
\* validation and skipped after both AI providers failed included); every
\* later deal with the same hash is skipped as a duplicate; and no hash has
\* more than one deal that went to AI analysis.
C28_SeenBeforeValidationAndAnalysis ==
    LET hashOf(k) == DealHashes[deals[k]]
        analysed(k) == log[k] \in { AIFailed, Passed, FilteredOut }
    IN  ( fpc \in { "loop", "returned" } /\ Len(log) = processed ) =>
          /\ \A k \in 1..processed : hashOf(k) \in seenDeals
          /\ \A j \in 1..processed :
                log[j] = Duplicate <=> \E i \in 1..(j - 1) : hashOf(i) = hashOf(j)
          /\ \A k \in 1..processed :
                Cardinality({ m \in 1..processed : hashOf(m) = hashOf(k) /\ analysed(m) })
                    <= 1
          /\ aiCalls # << >> => processed > 0 /\ analysed(processed)

\* Both providers failed on a deal, and the deal came again and was skipped.
C28_Witness ==
    /\ fpc = "returned"
    /\ processed = 2
    /\ deals[1] = deals[2]
    /\ log = << AIFailed, Duplicate >>
    /\ DealHashes[deals[1]] \in seenDeals

\* ------------------------------------------------------------------------
\* Properties of the filtering tool on long inputs
\* ------------------------------------------------------------------------
\* C27 as claimed: filterDeals pauses after every 10th deal of the input,
\* whatever became of that deal (duplicate, math-invalid, AI failure, accepted
\* or filtered out): once n deals are processed, n \div 10 pauses were made,
\* so that no more than 10 AI analyses lie between two pauses.
C27_PausesAfterEveryTenthDeal ==
    fpc \in { "loop", "returned" } => pauses = processed \div 10

\* ------------------------------------------------------------------------
\* Properties of saveDeal calls that interleave
\* ------------------------------------------------------------------------
\* C29: with the PostgreSQL store connected, two saveDeal calls for the same
\* hash of which both ran their select before either wrote both complete
\* without error, and the table then holds exactly one row of that hash.
C29_InterleavedSavesBothComplete ==
    ( /\ storageKind = "postgres"
      /\ isConnected
      /\ \A call \in SaveCallIds : saveCalls[call].pc \in { "returned", "raised" }
      /\ saveCalls[1].record[1].hash = saveCalls[2].record[1].hash
      /\ \E call \in SaveCallIds : saveCalls[call].overlapped )
    => /\ \A call \in SaveCallIds : saveCalls[call].pc = "returned"
       /\ Cardinality({ k \in 1..Len(rows) :
                          rows[k].hash = saveCalls[1].record[1].hash }) = 1

\* ------------------------------------------------------------------------
\* Properties of the scheduled trigger
\* ------------------------------------------------------------------------
\* C30: in a scheduled run, whenever the scraping tool's execute returns
\* normally the run goes on to the filtering step; the run fails at the
\* scraping step only when the scraping tool raised.
C30_RunContinuesWhenScrapingReturns ==
    /\ ( trigger.pc \notin { "idle", "scrape-electronics" } /\ spc = "returned" )
          => ( trigger.pc # "raised" /\ IsNull(trigger.failedAt) )
    /\ trigger.failedAt = Some("scrape-electronics") => spc = "raised"


====
